---- MODULE Spec2Model ----
(***************************************************************************)
(* Model of the brush node of TrenchBroom (common/src/Model/BrushNode.cpp) *)
(* and of the brush it owns, of the cell layout of its browsers            *)
(* (common/src/View/CellLayout.cpp) and of the rotation policy of its      *)
(* entities (common/src/Model/EntityRotationPolicy.cpp).                   *)
(*                                                                         *)
(* The node layer (guards, cache invalidation, delegation, clone, node     *)
(* level subtract) is translated from BrushNode.cpp.  The brush kernel     *)
(* (Brush.cpp, Polyhedron) is not part of the sources at hand; it is       *)
(* modelled from the specification, over axis aligned boxes with integer   *)
(* coordinates: a face is an axis aligned half space, a brush is the       *)
(* intersection of its faces.  Coordinates are in half units, so that the  *)
(* unit cube centered at the origin is [-1,1]^3 and the 2x2x2 cube is      *)
(* [-2,2]^3.                                                               *)
(***************************************************************************)
EXTENDS Integers, Sequences, FiniteSets, TLC

\* Half of the edge length of the world cube, in half units.
WorldHalf == 2

VARIABLES
    nodes,      \* node slot -> node: exists, m_brush, render cache
    lastCall,   \* the call that just returned to the caller (NoCall between calls)
    log,        \* the notifications and brush accesses of the last call, in order
    returned,   \* what the call returned: nodes (subtract), a number (faceCount)
    layout,     \* the CellLayout: its parameters, m_groups, m_valid, m_height
    layoutCall, \* the last call to the layout: op, args and what it returned
    entity,     \* the Entity the rotation policy reads and writes
    queryCall   \* the last call to the rotation policy or to a query of a node
                \* that reads the scene: op, args and what it returned

vars == <<nodes, lastCall, log, returned, layout, layoutCall, entity, queryCall>>

(***************************************************************************)
(* Vectors, boxes, faces                                                   *)
(***************************************************************************)
Axes == 1..3
\* The node slots; a brush that belongs to no node refers to NoNode.
NodeIds == {1, 2, 3}
NoNode == 0

MinOf(S) == CHOOSE x \in S : \A y \in S : x <= y
MaxOf(S) == CHOOSE x \in S : \A y \in S : x >= y

VAdd(v, d) == [a \in Axes |-> v[a] + d[a]]
ZeroVec == [a \in Axes |-> 0]

MkBox(lo, hi) == [lo |-> lo, hi |-> hi]
\* The value of "no geometry": a box without extent.
NoBounds == MkBox(ZeroVec, ZeroVec)
\* vm::bbox3 worldBounds, the parameter every brush operation takes.
worldBounds == MkBox([a \in Axes |-> -WorldHalf], [a \in Axes |-> WorldHalf])

NonDegenerate(box) == \A a \in Axes : box.lo[a] < box.hi[a]
InBox(p, box) == \A a \in Axes : box.lo[a] <= p[a] /\ p[a] <= box.hi[a]
BoxInBox(inner, outer) == InBox(inner.lo, outer) /\ InBox(inner.hi, outer)
Corners(box) ==
    IF NonDegenerate(box)
    THEN {<<x, y, z>> : x \in {box.lo[1], box.hi[1]},
                        y \in {box.lo[2], box.hi[2]},
                        z \in {box.lo[3], box.hi[3]}}
    ELSE {}
BoundingBox(S) ==
    MkBox([a \in Axes |-> MinOf({p[a] : p \in S})],
          [a \in Axes |-> MaxOf({p[a] : p \in S})])
\* The convex hull of S is a solid the model represents: an axis aligned box
\* whose corners are exactly the points of S.
IsBoxCornerSet(S) ==
    /\ S # {}
    /\ NonDegenerate(BoundingBox(S))
    /\ Corners(BoundingBox(S)) = S
Volume(box) ==
    IF NonDegenerate(box)
    THEN (box.hi[1] - box.lo[1]) * (box.hi[2] - box.lo[2]) * (box.hi[3] - box.lo[3])
    ELSE 0
BoxMeet(b1, b2) ==
    MkBox([a \in Axes |-> IF b1.lo[a] >= b2.lo[a] THEN b1.lo[a] ELSE b2.lo[a]],
          [a \in Axes |-> IF b1.hi[a] <= b2.hi[a] THEN b1.hi[a] ELSE b2.hi[a]])

\* A face: the half space  p[axis] >= dist  (side "lo")  or  p[axis] <= dist
\* (side "hi"), with the name of its texture.
MkFace(axis, side, dist, tex) == [axis |-> axis, side |-> side, dist |-> dist, tex |-> tex]
Sides == <<"lo", "hi">>
\* The six faces of a box, in the order x-, x+, y-, y+, z-, z+.
BoxFaces(box, tex) ==
    [i \in 1..6 |->
        LET a == (i + 1) \div 2
            s == Sides[2 - (i % 2)]
        IN MkFace(a, s, IF s = "lo" THEN box.lo[a] ELSE box.hi[a], tex)]

SeqRange(s) == {s[i] : i \in DOMAIN s}
(***************************************************************************)
(* The brush: faces (half spaces) and the mesh that realizes them.         *)
(* Brush.cpp is not among the sources; this part follows the               *)
(* specification (data model, 4.1 - 4.5, error handling).                  *)
(***************************************************************************)
MkBrush(node, faces, bounds) == [node |-> node, faces |-> faces, bounds |-> bounds]
\* A brush without faces and without mesh.
EmptyBrush(node) == MkBrush(node, <<>>, NoBounds)
HasGeometry(b) == b.bounds # NoBounds

FaceIdx(faces, a, s) == {i \in DOMAIN faces : faces[i].axis = a /\ faces[i].side = s}
\* Every direction is cut off by some face.
Bounded(faces) == \A a \in Axes : \A s \in SeqRange(Sides) : FaceIdx(faces, a, s) # {}
Tightest(faces, a, s) ==
    IF s = "lo" THEN MaxOf({faces[i].dist : i \in FaceIdx(faces, a, s)})
    ELSE MinOf({faces[i].dist : i \in FaceIdx(faces, a, s)})
HalfSpaceIntersection(faces) ==
    MkBox([a \in Axes |-> Tightest(faces, a, "lo")], [a \in Axes |-> Tightest(faces, a, "hi")])
\* The face that bounds the intersection on side s of axis a: the tightest
\* one, and of several in the same plane the first.
Retained(faces, a, s) ==
    faces[MinOf({i \in FaceIdx(faces, a, s) : faces[i].dist = Tightest(faces, a, s)})]
\* 4.1: the boundary representation of a face list, clipped to the world
\* bounds; ok is FALSE (InvalidBrush) when the intersection is empty or not
\* closed off inside the world bounds.  The mesh has one face per retained
\* face, in the order x-, x+, y-, y+, z-, z+; a face that does not touch the
\* solid is dropped.
Rebuild(wb, faces) ==
    IF /\ Bounded(faces)
       /\ NonDegenerate(HalfSpaceIntersection(faces))
       /\ BoxInBox(HalfSpaceIntersection(faces), wb)
    THEN [ok |-> TRUE,
          faces |-> [i \in 1..6 |-> Retained(faces, (i + 1) \div 2, Sides[2 - (i % 2)])],
          bounds |-> HalfSpaceIntersection(faces)]
    ELSE [ok |-> FALSE, faces |-> faces, bounds |-> NoBounds]

\* The result of a brush operation: whether it succeeded and the brush after
\* it.  A brush operation that fails throws.
OpResult(ok, brush) == [ok |-> ok, brush |-> brush]
Rejected(b) == OpResult(FALSE, b)

\* Brush::Brush(node, worldBounds, faces)
Brush_ctor(node, wb, faces) ==
    LET r == Rebuild(wb, faces)
    IN IF r.ok THEN OpResult(TRUE, MkBrush(node, r.faces, r.bounds))
       ELSE OpResult(FALSE, MkBrush(node, r.faces, r.bounds))
\* Brush::setNode
Brush_setNode(b, node) == [b EXCEPT !.node = node]
\* Brush::cloneFaceAttributesFrom and cloneInvertedFaceAttributesFrom.  The
\* specification does not speak of face attributes; what the two do is taken
\* from their names and from what the node hands them, the brush of another
\* node: a face takes the attributes of the face of the other brush that lies
\* on the same boundary plane, if there is one.
Brush_cloneFaceAttributesFrom(b, brush) ==
    LET matching(f) == {i \in DOMAIN brush.faces :
                           /\ brush.faces[i].axis = f.axis
                           /\ brush.faces[i].side = f.side
                           /\ brush.faces[i].dist = f.dist}
    IN [b EXCEPT !.faces = [i \in DOMAIN b.faces |->
           IF matching(b.faces[i]) = {} THEN b.faces[i]
           ELSE [b.faces[i] EXCEPT !.tex = brush.faces[MinOf(matching(b.faces[i]))].tex]]]
\* Brush::cloneInvertedFaceAttributesFrom: a face takes the attributes of the
\* face of the other brush that lies on the same plane and faces the other
\* way, if there is one.
Brush_cloneInvertedFaceAttributesFrom(b, brush) ==
    LET matching(f) == {i \in DOMAIN brush.faces :
                           /\ brush.faces[i].axis = f.axis
                           /\ brush.faces[i].side # f.side
                           /\ brush.faces[i].dist = f.dist}
    IN [b EXCEPT !.faces = [i \in DOMAIN b.faces |->
           IF matching(b.faces[i]) = {} THEN b.faces[i]
           ELSE [b.faces[i] EXCEPT !.tex = brush.faces[MinOf(matching(b.faces[i]))].tex]]]
\* Brush::setFaces: the face list is replaced and the mesh rebuilt; a failed
\* rebuild leaves the brush empty.
Brush_setFaces(b, wb, faces) ==
    LET r == Rebuild(wb, faces)
    IN IF r.ok THEN OpResult(TRUE, MkBrush(b.node, r.faces, r.bounds))
       ELSE OpResult(FALSE, EmptyBrush(b.node))

Brush_vertices(b) == Corners(b.bounds)
\* The edges: pairs of corners that differ in one coordinate.
Brush_edges(b) ==
    {{p, [p EXCEPT ![a] = b.bounds.lo[a] + b.bounds.hi[a] - p[a]]} :
        p \in Brush_vertices(b), a \in Axes}
\* The vertex loop of each face.
FacePolygon(b, f) ==
    {p \in Brush_vertices(b) : p[f.axis] = f.dist}
Brush_facePolygons(b) == {FacePolygon(b, b.faces[i]) : i \in DOMAIN b.faces}
Brush_closed(b) ==
    \A e \in Brush_edges(b) : Cardinality({p \in Brush_facePolygons(b) : e \subseteq p}) = 2
Brush_faceCount(b) == Len(b.faces)
Brush_contains(b, other) ==
    HasGeometry(b) /\ HasGeometry(other) /\ BoxInBox(other.bounds, b.bounds)
\* Two brushes intersect when they have a point in common.
Brush_intersects(b, other) ==
    /\ HasGeometry(b) /\ HasGeometry(other)
    /\ \A a \in Axes : /\ b.bounds.lo[a] <= other.bounds.hi[a]
                       /\ other.bounds.lo[a] <= b.bounds.hi[a]
Brush_containsPoint(b, p) == HasGeometry(b) /\ InBox(p, b.bounds)
\* Brush::contains and Brush::intersects asked about a bounding box.
Brush_containsBounds(b, box) == HasGeometry(b) /\ BoxInBox(box, b.bounds)
Brush_intersectsBounds(b, box) ==
    /\ HasGeometry(b)
    /\ \A a \in Axes : b.bounds.lo[a] <= box.hi[a] /\ box.lo[a] <= b.bounds.hi[a]

\* 6, the query surface: enumeration and counts of faces, vertices and edges,
\* the lookups, and face lookup by name, normal, boundary plane and vertex
\* loop.  Coordinates are integers, so points are compared exactly and the
\* epsilon of the lookups plays no part.
Brush_faces(b) == b.faces
Brush_vertexCount(b) == Cardinality(Brush_vertices(b))
Brush_edgeCount(b) == Cardinality(Brush_edges(b))
\* The outward normal of a face and its boundary plane  normal * p = distance.
FaceNormal(f) ==
    [a \in Axes |-> IF a # f.axis THEN 0 ELSE IF f.side = "lo" THEN -1 ELSE 1]
FaceBoundary(f) ==
    [normal |-> FaceNormal(f), distance |-> IF f.side = "lo" THEN -f.dist ELSE f.dist]
\* Brush::findFace by "textureName", "normal", "boundary" or "vertices": the
\* first face of the list that matches the key; by "candidates": the face of
\* the first of the vertex loops that is the loop of a face.  A face is handed
\* out as its position in the face list, 0 for nullptr.
Brush_findFace(b, by, key) ==
    LET matches(f, k) ==
            CASE by = "textureName" -> f.tex = k
              [] by = "normal" -> FaceNormal(f) = k
              [] by = "boundary" -> FaceBoundary(f) = k
              [] by \in {"vertices", "candidates"} -> FacePolygon(b, f) = k
        first(k) ==
            LET found == {i \in DOMAIN b.faces : matches(b.faces[i], k)}
            IN IF found = {} THEN 0 ELSE MinOf(found)
        firstOf(candidates) ==
            LET matched == {c \in DOMAIN candidates : first(candidates[c]) # 0}
            IN IF matched = {} THEN 0 ELSE first(candidates[MinOf(matched)])
    IN IF by = "candidates" THEN firstOf(key) ELSE first(key)
\* 3: every face has a boundary plane that can be derived from the vertices
\* of its loop.
Brush_fullySpecified(b) ==
    \A i \in DOMAIN b.faces : Cardinality(FacePolygon(b, b.faces[i])) >= 3
Brush_hasVertex(b, position) == position \in Brush_vertices(b)
Brush_hasEdge(b, edge) == edge \in Brush_edges(b)
\* Brush::hasFace, asked about a vertex loop or about its three, four or five
\* points.
Brush_hasFace(b, polygon) == polygon \in Brush_facePolygons(b)
\* Brush::findClosestVertexPosition: the vertices a closest one is among; of
\* several at the same distance the mesh hands out the one it comes to first.
Brush_findClosestVertexPosition(b, position) ==
    LET squaredDistance(v) ==
            (v[1] - position[1]) * (v[1] - position[1])
            + (v[2] - position[2]) * (v[2] - position[2])
            + (v[3] - position[3]) * (v[3] - position[3])
    IN {v \in Brush_vertices(b) :
           \A w \in Brush_vertices(b) : squaredDistance(v) <= squaredDistance(w)}
\* The positions a brush without vertices may hand back as the closest one:
\* any position; here those with coordinates at the middle and at the ends of
\* the world.
SomePositions == [Axes -> {0 - WorldHalf, 0, WorldHalf}]
\* The faces around a vertex.
Brush_incidentFaces(b, vertex) ==
    {i \in DOMAIN b.faces : vertex \in FacePolygon(b, b.faces[i])}

\* A ray that runs along an axis: its origin, the axis and the direction
\* (-1 or 1) along it.
Ray(origin, axis, sign) == [origin |-> origin, axis |-> axis, sign |-> sign]
\* vm::nan and vm::is_nan: a distance is <<d>>, or nan where there is none.
nan == <<>>
is_nan(distance) == distance = nan
\* vm::intersect_ray_bbox: the distance from the origin to the point where
\* the ray enters the box, 0 for an origin inside of it.
intersect_ray_bbox(ray, box) ==
    LET a == ray.axis
        near == IF ray.sign > 0 THEN box.lo[a] ELSE box.hi[a]
        far == IF ray.sign > 0 THEN box.hi[a] ELSE box.lo[a]
        distance == (near - ray.origin[a]) * ray.sign
    IN IF /\ \A o \in Axes \ {a} : box.lo[o] <= ray.origin[o] /\ ray.origin[o] <= box.hi[o]
          /\ (far - ray.origin[a]) * ray.sign >= 0
       THEN <<IF distance > 0 THEN distance ELSE 0>>
       ELSE nan
\* BrushFace::intersectWithRay: the distance at which the ray meets the face
\* from its front, inside of the loop of the face.
BrushFace_intersectWithRay(b, f, ray) ==
    LET distance == (f.dist - ray.origin[f.axis]) * ray.sign
        point == [ray.origin EXCEPT ![f.axis] = f.dist]
    IN IF /\ f.axis = ray.axis
          /\ FaceNormal(f)[f.axis] * ray.sign < 0
          /\ distance >= 0
          /\ FacePolygon(b, f) # {}
          /\ InBox(point, BoundingBox(FacePolygon(b, f)))
       THEN <<distance>>
       ELSE nan

\* The faces of a brush whose mesh became box, each face moved to the side of
\* the box it bounds.
FacesOnto(faces, box) ==
    [i \in DOMAIN faces |->
        [faces[i] EXCEPT !.dist = IF faces[i].side = "lo" THEN box.lo[faces[i].axis]
                                  ELSE box.hi[faces[i].axis]]]

\* 4.2: the vertices of the brush after the vertices sel moved by delta.
MovedVertices(b, sel, delta) ==
    (Brush_vertices(b) \ sel) \cup {VAdd(v, delta) : v \in sel}
Brush_canMoveVertices(b, wb, sel, delta) ==
    /\ HasGeometry(b)
    /\ sel # {}
    /\ sel \subseteq Brush_vertices(b)
    /\ delta # ZeroVec
    /\ \A v \in sel : InBox(VAdd(v, delta), wb)
    /\ IsBoxCornerSet(MovedVertices(b, sel, delta))
    /\ Cardinality(MovedVertices(b, sel, delta)) = Cardinality(Brush_vertices(b))
\* 4.2 and 7: what a move does that is called although its predicate is
\* false is not defined ("behavior is undefined (or must fail loudly)"): the
\* brush fails loudly, throwing and staying as it is, or the call returns
\* without a failure.
UndefinedMove(b) == {Rejected(b), OpResult(TRUE, b)}
\* The outcomes of a move of the vertices sel of which the brush says can:
\* the brush with the vertices moved when the predicate holds; a move that
\* takes a vertex out of the world bounds fails and leaves the brush
\* unchanged (8, move scenario); any other move has no defined outcome.
MoveOutcomes(can, b, wb, sel, delta) ==
    IF can
    THEN LET box == BoundingBox(MovedVertices(b, sel, delta))
         IN {OpResult(TRUE, MkBrush(b.node, FacesOnto(b.faces, box), box))}
    ELSE IF \E v \in sel : ~InBox(VAdd(v, delta), wb)
    THEN {Rejected(b)}
    ELSE UndefinedMove(b)
\* Brush::moveVertices, the set of its outcomes
Brush_moveVertices(b, wb, sel, delta, uvLock) ==
    MoveOutcomes(Brush_canMoveVertices(b, wb, sel, delta), b, wb, sel, delta)

UnionAll(S) == UNION S
Brush_canMoveEdges(b, wb, edges, delta) ==
    /\ edges # {}
    /\ edges \subseteq Brush_edges(b)
    /\ Brush_canMoveVertices(b, wb, UnionAll(edges), delta)
\* Brush::moveEdges, the set of its outcomes
Brush_moveEdges(b, wb, edges, delta, uvLock) ==
    MoveOutcomes(Brush_canMoveEdges(b, wb, edges, delta), b, wb, UnionAll(edges), delta)
Brush_canMoveFaces(b, wb, polys, delta) ==
    /\ polys # {}
    /\ polys \subseteq Brush_facePolygons(b)
    /\ Brush_canMoveVertices(b, wb, UnionAll(polys), delta)
\* Brush::moveFaces, the set of its outcomes
Brush_moveFaces(b, wb, polys, delta, uvLock) ==
    MoveOutcomes(Brush_canMoveFaces(b, wb, polys, delta), b, wb, UnionAll(polys), delta)

\* Brush::canAddVertex / addVertex: the new vertex lies in the world, outside of
\* the brush, and the hull of the old vertices and the new one is a solid.
\* The hull of a box and a point outside of it is no box, and neither is what
\* remains of a box without some of its vertices: a vertex the brush accepts
\* leads out of the solids of this model, and the model asks the brush only
\* about vertices it refuses.
Brush_canAddVertex(b, wb, pos) ==
    /\ HasGeometry(b)
    /\ InBox(pos, wb)
    /\ ~Brush_containsPoint(b, pos)
    /\ IsBoxCornerSet(Brush_vertices(b) \cup {pos})
Brush_addVertex(b, wb, pos) ==
    IF Brush_canAddVertex(b, wb, pos)
    THEN LET box == BoundingBox(Brush_vertices(b) \cup {pos})
         IN OpResult(TRUE, MkBrush(b.node, FacesOnto(b.faces, box), box))
    ELSE Rejected(b)
\* Brush::canRemoveVertices / removeVertices: the remaining vertices still span
\* a solid.
Brush_canRemoveVertices(b, wb, sel) ==
    /\ HasGeometry(b)
    /\ sel # {}
    /\ sel \subseteq Brush_vertices(b)
    /\ IsBoxCornerSet(Brush_vertices(b) \ sel)
Brush_removeVertices(b, wb, sel) ==
    IF Brush_canRemoveVertices(b, wb, sel)
    THEN LET box == BoundingBox(Brush_vertices(b) \ sel)
         IN OpResult(TRUE, MkBrush(b.node, FacesOnto(b.faces, box), box))
    ELSE Rejected(b)

\* 4.3: g * round(x / g), halves rounded away from zero.
SnapCoord(x, g) ==
    LET q == x \div g
        r == x % g
    IN IF 2 * r < g THEN q * g
       ELSE IF 2 * r > g THEN (q + 1) * g
       ELSE IF x > 0 THEN (q + 1) * g ELSE q * g
SnapVec(v, g) == [a \in Axes |-> SnapCoord(v[a], g)]
SnappedVertices(b, g) == {SnapVec(v, g) : v \in Brush_vertices(b)}
\* Brush::canSnapVertices: the snapped vertices still span a solid inside the
\* world.
Brush_canSnapVertices(b, wb, g) ==
    /\ HasGeometry(b)
    /\ IsBoxCornerSet(SnappedVertices(b, g))
    /\ BoxInBox(BoundingBox(SnappedVertices(b, g)), wb)
Brush_snapVertices(b, wb, g, uvLock) ==
    IF Brush_canSnapVertices(b, wb, g)
    THEN LET box == BoundingBox(SnappedVertices(b, g))
         IN OpResult(TRUE, MkBrush(b.node, FacesOnto(b.faces, box), box))
    ELSE Rejected(b)

\* 4.4 intersect: the faces of both brushes, rebuilt; the brush becomes empty
\* when the intersection is empty.
Brush_intersect(b, wb, other) ==
    LET r == Rebuild(wb, b.faces \o other.faces)
    IN IF HasGeometry(b) /\ HasGeometry(other) /\ r.ok
       THEN OpResult(TRUE, MkBrush(b.node, r.faces, r.bounds))
       ELSE OpResult(FALSE, EmptyBrush(b.node))

\* The half space on the other side of the plane of f.
Inverted(f, tex) == MkFace(f.axis, IF f.side = "lo" THEN "hi" ELSE "lo", f.dist, tex)
\* 4.4 subtract, one subtrahend: the remainder is clipped by the subtrahend's
\* faces in turn; what lies outside of a face is a fragment, what lies inside
\* is clipped on; empty fragments are dropped; cut faces get the default
\* texture.
RECURSIVE SubtractFaces(_, _, _, _, _)
SubtractFaces(remainder, cutters, i, wb, tex) ==
    IF i > Len(cutters) THEN <<>>
    ELSE LET fragment == Rebuild(wb, remainder \o <<Inverted(cutters[i], tex)>>)
             inside == Rebuild(wb, remainder \o <<[cutters[i] EXCEPT !.tex = tex]>>)
         IN (IF fragment.ok THEN <<MkBrush(NoNode, fragment.faces, fragment.bounds)>>
             ELSE <<>>)
            \o (IF inside.ok THEN SubtractFaces(inside.faces, cutters, i + 1, wb, tex)
                ELSE <<>>)
\* Brush::subtract(factory, worldBounds, defaultTextureName, subtrahend): a
\* subtrahend that does not reach into the minuend leaves a copy of the minuend.
Brush_subtract1(b, wb, tex, subtrahend) ==
    IF ~HasGeometry(b) THEN <<>>
    ELSE IF ~HasGeometry(subtrahend) \/ ~NonDegenerate(BoxMeet(b.bounds, subtrahend.bounds))
    THEN <<b>>
    ELSE SubtractFaces(b.faces, subtrahend.faces, 1, wb, tex)
\* All fragments of the brushes of a sequence minus one subtrahend.
RECURSIVE SubtractFromAll(_, _, _, _)
SubtractFromAll(fragments, wb, tex, subtrahend) ==
    IF fragments = <<>> THEN <<>>
    ELSE Brush_subtract1(Head(fragments), wb, tex, subtrahend)
         \o SubtractFromAll(Tail(fragments), wb, tex, subtrahend)
\* Brush::subtract(factory, worldBounds, defaultTextureName, subtrahends): the
\* subtrahends are taken off one after the other.
RECURSIVE SubtractEach(_, _, _, _)
SubtractEach(fragments, wb, tex, subtrahends) ==
    IF subtrahends = <<>> THEN fragments
    ELSE SubtractEach(SubtractFromAll(fragments, wb, tex, Head(subtrahends)),
                      wb, tex, Tail(subtrahends))
Brush_subtract(b, wb, tex, subtrahends) == SubtractEach(<<b>>, wb, tex, subtrahends)

\* 4.5 transformations: the translations by a vector.
Translation(d) == [kind |-> "translate", delta |-> d]
TransformFace(t, f) == [f EXCEPT !.dist = f.dist + t.delta[f.axis]]
TransformFaces(t, faces) == [i \in DOMAIN faces |-> TransformFace(t, faces[i])]
Brush_canTransform(b, t, wb) ==
    /\ HasGeometry(b)
    /\ Rebuild(wb, TransformFaces(t, b.faces)).ok
Brush_transform(b, t, lockTextures, wb) ==
    IF Brush_canTransform(b, t, wb)
    THEN LET r == Rebuild(wb, TransformFaces(t, b.faces))
         IN OpResult(TRUE, MkBrush(b.node, r.faces, r.bounds))
    ELSE Rejected(b)
\* Brush::findIntegerPlanePoints: the plane points are made integer (they are
\* integer in this model) and the mesh is rebuilt.
Brush_findIntegerPlanePoints(b, wb) ==
    IF HasGeometry(b)
    THEN LET r == Rebuild(wb, b.faces)
         IN OpResult(r.ok, MkBrush(b.node, r.faces, r.bounds))
    ELSE Rejected(b)

(***************************************************************************)
(* The node: BrushNode.cpp                                                 *)
(***************************************************************************)
\* A slot without node.
NoNodeRec ==
    [exists |-> FALSE, brush |-> EmptyBrush(NoNode), vertexCacheValid |-> FALSE,
     cachedBounds |-> NoBounds]
\* A node right after construction: m_brush and a new, invalid render cache.
NewNode(brush) ==
    [exists |-> TRUE, brush |-> brush, vertexCacheValid |-> FALSE,
     cachedBounds |-> NoBounds]

WithBrush(ns, n, b) == [ns EXCEPT ![n].brush = b]
\* An invalidation that flips the flag of the cache.
invalidateVertexCache_toggling(ns, n) ==
    [ns EXCEPT ![n].vertexCacheValid = ~ns[n].vertexCacheValid, ![n].cachedBounds = NoBounds]
\* BrushNode::invalidateVertexCache
invalidateVertexCache(ns, n) ==
    [ns EXCEPT ![n].vertexCacheValid = FALSE, ![n].cachedBounds = NoBounds]
\* NotifyNodeChange and NotifyPhysicalBoundsChange: a scope's notifications
\* around what happens inside of it.
NotifyNodeChange(body) == <<"nodeWillChange">> \o body \o <<"nodeDidChange">>
NotifyPhysicalBoundsChange(body) ==
    <<"physicalBoundsWillChange">> \o body \o <<"physicalBoundsDidChange">>
\* The call into m_brush, and the exception that leaves it when it fails.
BrushCall(r) == IF r.ok THEN <<"m_brush">> ELSE <<"m_brush", "throw">>

BoolStr(b) == IF b THEN "true" ELSE "false"
Outcome(r) == IF r.ok THEN "ok" ELSE "failed"
Call(op, n, other, outcome, args) ==
    [op |-> op, node |-> n, other |-> other, outcome |-> outcome, args |-> args]
NoArgs == <<>>

\* A constructor that keeps the node when the brush could not be built.
BrushNode_fromFaces_unchecked(n, faces) ==
    LET r == Brush_ctor(n, worldBounds, faces)
    IN /\ ~nodes[n].exists
       /\ nodes' = [nodes EXCEPT ![n] = NewNode(IF r.ok THEN r.brush
                                                 ELSE MkBrush(n, faces, worldBounds))]
       /\ lastCall' = Call("BrushNode", n, NoNode, "ok", <<faces>>)
       /\ log' = <<>>
       /\ returned' = <<>>
\* BrushNode::BrushNode(worldBounds, faces), as the node of slot n
BrushNode_fromFaces(n, faces) ==
    LET r == Brush_ctor(n, worldBounds, faces)
    IN /\ ~nodes[n].exists
       /\ nodes' = IF r.ok THEN [nodes EXCEPT ![n] = NewNode(r.brush)] ELSE nodes
       /\ lastCall' = Call("BrushNode", n, NoNode, IF r.ok THEN "ok" ELSE "InvalidBrush", <<faces>>)
       /\ log' = <<>>
       /\ returned' = <<>>
\* BrushNode::BrushNode(Brush brush)
BrushNode_fromBrush(n, brush) ==
    /\ ~nodes[n].exists
    /\ nodes' = [nodes EXCEPT ![n] = NewNode(Brush_setNode(brush, n))]
    /\ lastCall' = Call("BrushNode(Brush)", n, NoNode, "ok", NoArgs)
    /\ log' = <<>>
    /\ returned' = <<>>
\* BrushNode::~BrushNode
BrushNode_destroy(n) ==
    /\ nodes[n].exists
    /\ nodes' = [nodes EXCEPT ![n] = NoNodeRec]
    /\ lastCall' = Call("~BrushNode", n, NoNode, "ok", NoArgs)
    /\ log' = <<>>
    /\ returned' = <<>>
\* A clone that holds the original's brush as it is, owner included.
doClone_sharingBrush(n, m) ==
    /\ nodes[n].exists
    /\ ~nodes[m].exists
    /\ nodes' = [nodes EXCEPT ![m] = NewNode(nodes[n].brush)]
    /\ lastCall' = Call("clone", n, m, "ok", NoArgs)
    /\ log' = <<>>
    /\ returned' = <<>>
\* BrushNode::doClone: the clone becomes the node of the free slot m
doClone(n, m) ==
    /\ nodes[n].exists
    /\ ~nodes[m].exists
    /\ nodes' = [nodes EXCEPT ![m] = NewNode(Brush_setNode(nodes[n].brush, m))]
    /\ lastCall' = Call("clone", n, m, "ok", NoArgs)
    /\ log' = <<>>
    /\ returned' = <<>>

\* BrushNode::cloneFaceAttributesFrom(const BrushNode*)
cloneFaceAttributesFrom(n, brush) ==
    /\ nodes[n].exists
    /\ nodes[brush].exists
    /\ nodes' = WithBrush(nodes, n,
                          Brush_cloneFaceAttributesFrom(nodes[n].brush, nodes[brush].brush))
    /\ lastCall' = Call("cloneFaceAttributesFrom", n, brush, "ok", NoArgs)
    /\ log' = <<"m_brush">>
    /\ returned' = <<>>
\* BrushNode::cloneFaceAttributesFrom(const std::vector<BrushNode*>&)
cloneFaceAttributesFromBrushes(n, brushes) ==
    LET RECURSIVE each(_, _)
        each(ns, i) ==
            IF i > Len(brushes) THEN ns
            ELSE each(WithBrush(ns, n, Brush_cloneFaceAttributesFrom(
                                           ns[n].brush, ns[brushes[i]].brush)), i + 1)
    IN /\ nodes[n].exists
       /\ \A i \in DOMAIN brushes : nodes[brushes[i]].exists
       /\ nodes' = each(nodes, 1)
       /\ lastCall' = Call("cloneFaceAttributesFrom", n, NoNode, "ok", <<brushes>>)
       /\ log' = [i \in DOMAIN brushes |-> "m_brush"]
       /\ returned' = <<>>
\* BrushNode::cloneInvertedFaceAttributesFrom(const BrushNode*)
cloneInvertedFaceAttributesFrom(n, brush) ==
    /\ nodes[n].exists
    /\ nodes[brush].exists
    /\ nodes' = WithBrush(nodes, n,
                          Brush_cloneInvertedFaceAttributesFrom(nodes[n].brush, nodes[brush].brush))
    /\ lastCall' = Call("cloneInvertedFaceAttributesFrom", n, brush, "ok", NoArgs)
    /\ log' = <<"m_brush">>
    /\ returned' = <<>>
\* BrushNode::cloneInvertedFaceAttributesFrom(const std::vector<BrushNode*>&)
cloneInvertedFaceAttributesFromBrushes(n, brushes) ==
    LET RECURSIVE each(_, _)
        each(ns, i) ==
            IF i > Len(brushes) THEN ns
            ELSE each(WithBrush(ns, n, Brush_cloneInvertedFaceAttributesFrom(
                                           ns[n].brush, ns[brushes[i]].brush)), i + 1)
    IN /\ nodes[n].exists
       /\ \A i \in DOMAIN brushes : nodes[brushes[i]].exists
       /\ nodes' = each(nodes, 1)
       /\ lastCall' = Call("cloneInvertedFaceAttributesFrom", n, NoNode, "ok", <<brushes>>)
       /\ log' = [i \in DOMAIN brushes |-> "m_brush"]
       /\ returned' = <<>>

\* BrushNode::setBrush
setBrush(n, brush) ==
    /\ nodes[n].exists
    /\ nodes' = invalidateVertexCache(WithBrush(nodes, n, Brush_setNode(brush, n)), n)
    /\ lastCall' = Call("setBrush", n, NoNode, "ok", NoArgs)
    /\ log' = NotifyNodeChange(NotifyPhysicalBoundsChange(
                  <<"m_brush", "invalidateIssues", "invalidateVertexCache">>))
    /\ returned' = <<>>
\* BrushNode::setFaces
setFaces(n, faces) ==
    LET r == Brush_setFaces(nodes[n].brush, worldBounds, faces)
    IN /\ nodes[n].exists
       /\ nodes' = IF r.ok
                   THEN invalidateVertexCache(WithBrush(nodes, n, r.brush), n)
                   ELSE WithBrush(nodes, n, r.brush)
       /\ lastCall' = Call("setFaces", n, NoNode, IF r.ok THEN "ok" ELSE "InvalidBrush", <<faces>>)
       /\ log' = NotifyNodeChange(NotifyPhysicalBoundsChange(
                     BrushCall(r) \o (IF r.ok THEN <<"invalidateIssues", "invalidateVertexCache">>
                                      ELSE <<>>)))
       /\ returned' = <<>>

\* A const member function of the node that answers from m_brush.
Query(op, n, other, outcome, args) ==
    /\ nodes[n].exists
    /\ lastCall' = Call(op, n, other, outcome, args)
    /\ log' = <<>>
    /\ returned' = <<>>
    /\ UNCHANGED nodes

\* A const member function of the node that hands back what m_brush hands it.
QueryReturning(op, n, args, value) ==
    /\ nodes[n].exists
    /\ lastCall' = Call(op, n, NoNode, "ok", args)
    /\ log' = <<>>
    /\ returned' = <<value>>
    /\ UNCHANGED nodes

\* BrushNode::findFace, its five overloads told apart by what the face is
\* looked up by
findFace(n, by, key) ==
    QueryReturning("findFace", n, <<by, key>>, Brush_findFace(nodes[n].brush, by, key))
\* BrushNode::faceCount; the call returns the number.
faceCount(n) ==
    /\ nodes[n].exists
    /\ lastCall' = Call("faceCount", n, NoNode, "ok", NoArgs)
    /\ log' = <<>>
    /\ returned' = <<Brush_faceCount(nodes[n].brush)>>
    /\ UNCHANGED nodes
BrushNode_faces(n) == QueryReturning("faces", n, NoArgs, Brush_faces(nodes[n].brush))
closed(n) == Query("closed", n, NoNode, BoolStr(Brush_closed(nodes[n].brush)), NoArgs)
fullySpecified(n) ==
    Query("fullySpecified", n, NoNode, BoolStr(Brush_fullySpecified(nodes[n].brush)), NoArgs)
vertexCount(n) == QueryReturning("vertexCount", n, NoArgs, Brush_vertexCount(nodes[n].brush))
BrushNode_vertices(n) == QueryReturning("vertices", n, NoArgs, Brush_vertices(nodes[n].brush))
vertexPositions(n) ==
    QueryReturning("vertexPositions", n, NoArgs, Brush_vertices(nodes[n].brush))
hasVertex(n, position) ==
    Query("hasVertex", n, NoNode, BoolStr(Brush_hasVertex(nodes[n].brush, position)),
          <<position>>)
\* BrushNode::findClosestVertexPosition returns a position by value.  What
\* the brush does when it has no vertex is not defined: the call fails, or
\* it returns and hands back some position.
findClosestVertexPosition(n, position) ==
    LET closest == Brush_findClosestVertexPosition(nodes[n].brush, position)
    IN /\ nodes[n].exists
       /\ log' = <<>>
       /\ IF closest # {}
          THEN /\ lastCall' = Call("findClosestVertexPosition", n, NoNode, "ok", <<position>>)
               /\ \E v \in closest : returned' = <<v>>
          ELSE \/ /\ lastCall' = Call("findClosestVertexPosition", n, NoNode, "ok",
                                      <<position>>)
                  /\ \E v \in SomePositions : returned' = <<v>>
               \/ /\ lastCall' = Call("findClosestVertexPosition", n, NoNode, "failed",
                                      <<position>>)
                  /\ returned' = <<>>
       /\ UNCHANGED nodes
hasEdge(n, edge) ==
    Query("hasEdge", n, NoNode, BoolStr(Brush_hasEdge(nodes[n].brush, edge)), <<edge>>)
\* BrushNode::hasFace, asked about a vertex loop or, by the overloads that take
\* three, four and five points, about the loop of these points
hasFace(n, polygon) ==
    Query("hasFace", n, NoNode, BoolStr(Brush_hasFace(nodes[n].brush, polygon)), <<polygon>>)
edgeCount(n) == QueryReturning("edgeCount", n, NoArgs, Brush_edgeCount(nodes[n].brush))
BrushNode_edges(n) == QueryReturning("edges", n, NoArgs, Brush_edges(nodes[n].brush))
containsPoint(n, p) ==
    Query("containsPoint", n, NoNode, BoolStr(Brush_containsPoint(nodes[n].brush, p)), <<p>>)
\* canMoveVertices that asks the brush without the world bounds.
canMoveVertices_unbounded(n, sel, delta) ==
    Query("canMoveVertices", n, NoNode,
          BoolStr(Brush_canMoveVertices(nodes[n].brush,
                      MkBox([a \in Axes |-> -4 * WorldHalf], [a \in Axes |-> 4 * WorldHalf]),
                      sel, delta)),
          <<sel, delta>>)
incidentFaces(n, vertex) ==
    QueryReturning("incidentFaces", n, <<vertex>>, Brush_incidentFaces(nodes[n].brush, vertex))
canMoveVertices(n, sel, delta) ==
    Query("canMoveVertices", n, NoNode,
          BoolStr(Brush_canMoveVertices(nodes[n].brush, worldBounds, sel, delta)), <<sel, delta>>)
canAddVertex(n, pos) ==
    Query("canAddVertex", n, NoNode,
          BoolStr(Brush_canAddVertex(nodes[n].brush, worldBounds, pos)), <<pos>>)
canRemoveVertices(n, sel) ==
    Query("canRemoveVertices", n, NoNode,
          BoolStr(Brush_canRemoveVertices(nodes[n].brush, worldBounds, sel)), <<sel>>)
\* canSnapVertices that snaps the brush to find out.
canSnapVertices_snapping(n, snapToF) ==
    LET r == Brush_snapVertices(nodes[n].brush, worldBounds, snapToF, FALSE)
    IN /\ nodes[n].exists
       /\ nodes' = WithBrush(nodes, n, r.brush)
       /\ lastCall' = Call("canSnapVertices", n, NoNode, BoolStr(r.ok), <<snapToF>>)
       /\ log' = <<>>
       /\ returned' = <<>>
canSnapVertices(n, snapToF) ==
    Query("canSnapVertices", n, NoNode,
          BoolStr(Brush_canSnapVertices(nodes[n].brush, worldBounds, snapToF)), <<snapToF>>)
canMoveEdges(n, edges, delta) ==
    Query("canMoveEdges", n, NoNode,
          BoolStr(Brush_canMoveEdges(nodes[n].brush, worldBounds, edges, delta)), <<edges, delta>>)
canMoveFaces(n, polys, delta) ==
    Query("canMoveFaces", n, NoNode,
          BoolStr(Brush_canMoveFaces(nodes[n].brush, worldBounds, polys, delta)), <<polys, delta>>)
canTransform(n, t) ==
    Query("canTransform", n, NoNode,
          BoolStr(Brush_canTransform(nodes[n].brush, t, worldBounds)), <<t>>)

\* BrushNode::doGetLogicalBounds
doGetLogicalBounds(n) == nodes[n].brush.bounds
\* The same search keeping the last face hit.
BrushNode_findFaceHit_last(bboxDistance, distances) ==
    LET hits == {i \in DOMAIN distances : ~is_nan(distances[i])}
    IN  IF is_nan(bboxDistance) \/ hits = {}
        THEN [face |-> 0, distance |-> nan]
        ELSE [face |-> MaxOf(hits), distance |-> distances[MaxOf(hits)]]
\* BrushNode::findFaceHit: bboxDistance is intersect_ray_bbox of the ray
\* and the logical bounds, distances[i] is intersectWithRay of face i of
\* m_brush.faces(); face 0 is the null face.
BrushNode_findFaceHit(bboxDistance, distances) ==
    LET RECURSIVE from(_)
        from(i) ==
            IF i > Len(distances)
            THEN [face |-> 0, distance |-> nan]
            ELSE IF ~is_nan(distances[i])
                 THEN [face |-> i, distance |-> distances[i]]
                 ELSE from(i + 1)
    IN  IF is_nan(bboxDistance) THEN [face |-> 0, distance |-> nan] ELSE from(1)
\* BrushNode::doPick: the hits added to the pick result, and whether the
\* ensure held.
BrushNode_doPick(bboxDistance, distances) ==
    LET add(hit) ==
            IF hit.face # 0
            THEN [hits |-> <<[distance |-> hit.distance, face |-> hit.face]>>,
                  ensured |-> ~is_nan(hit.distance)]
            ELSE [hits |-> <<>>, ensured |-> TRUE]
    IN  add(BrushNode_findFaceHit(bboxDistance, distances))

\* BrushNode::doPick, called with a ray on node n: the hits added to the pick
\* result are what the call leaves behind
pick(n, ray) ==
    LET picked == BrushNode_doPick(
                      intersect_ray_bbox(ray, doGetLogicalBounds(n)),
                      [i \in DOMAIN nodes[n].brush.faces |->
                          BrushFace_intersectWithRay(nodes[n].brush, nodes[n].brush.faces[i], ray)])
    IN /\ nodes[n].exists
       /\ lastCall' = Call("pick", n, NoNode, IF picked.ensured THEN "ok" ELSE "failed", <<ray>>)
       /\ log' = <<>>
       /\ returned' = picked.hits
       /\ UNCHANGED nodes

\* A node handed to a visitor: its kind, its logical bounds and, for a brush
\* node, its slot.
VisitedNode(kind, logicalBounds, id) ==
    [kind |-> kind, logicalBounds |-> logicalBounds, id |-> id]
\* BrushNode::Contains::doVisit, of the visitor made for brush
Contains_doVisit(brush, node) ==
    CASE node.kind \in {"world", "layer"} -> FALSE
      [] node.kind \in {"group", "entity"} -> Brush_containsBounds(brush, node.logicalBounds)
      [] node.kind = "brush" -> Brush_contains(brush, nodes[node.id].brush)
\* BrushNode::doContains
doContains(n, node) ==
    /\ node.kind = "brush" => nodes[node.id].exists
    /\ Query("contains", n, node.id, BoolStr(Contains_doVisit(nodes[n].brush, node)), <<node>>)
\* BrushNode::Intersects::doVisit, of the visitor made for brush
Intersects_doVisit(brush, node) ==
    CASE node.kind \in {"world", "layer"} -> FALSE
      [] node.kind \in {"group", "entity"} -> Brush_intersectsBounds(brush, node.logicalBounds)
      [] node.kind = "brush" -> Brush_intersects(brush, nodes[node.id].brush)
\* BrushNode::doIntersects
doIntersects(n, node) ==
    /\ node.kind = "brush" => nodes[node.id].exists
    /\ Query("intersects", n, node.id, BoolStr(Intersects_doVisit(nodes[n].brush, node)), <<node>>)

\* A mutating member function whose guards do not notify when the call into
\* m_brush throws.
GuardedBrushOp_silentOnThrow(op, n, other, r, args) ==
    /\ nodes[n].exists
    /\ nodes' = WithBrush(nodes, n, r.brush)
    /\ lastCall' = Call(op, n, other, Outcome(r), args)
    /\ log' = IF r.ok THEN NotifyNodeChange(NotifyPhysicalBoundsChange(BrushCall(r)))
              ELSE <<"nodeWillChange", "physicalBoundsWillChange">> \o BrushCall(r)
    /\ returned' = <<>>
\* A mutating member function whose body is the two guards and the call into
\* m_brush.
GuardedBrushOp(op, n, other, r, args) ==
    /\ nodes[n].exists
    /\ nodes' = WithBrush(nodes, n, r.brush)
    /\ lastCall' = Call(op, n, other, Outcome(r), args)
    /\ log' = NotifyNodeChange(NotifyPhysicalBoundsChange(BrushCall(r)))
    /\ returned' = <<>>

moveVertices(n, sel, delta, uvLock) ==
    \E r \in Brush_moveVertices(nodes[n].brush, worldBounds, sel, delta, uvLock) :
        GuardedBrushOp("moveVertices", n, NoNode, r, <<sel, delta>>)
addVertex(n, pos) ==
    GuardedBrushOp("addVertex", n, NoNode,
        Brush_addVertex(nodes[n].brush, worldBounds, pos), <<pos>>)
removeVertices(n, sel) ==
    GuardedBrushOp("removeVertices", n, NoNode,
        Brush_removeVertices(nodes[n].brush, worldBounds, sel), <<sel>>)
\* snapVertices that leaves the snapped brush one step off the grid.
snapVertices_thenShift(n, snapToF, uvLock) ==
    GuardedBrushOp("snapVertices", n, NoNode,
        LET r == Brush_snapVertices(nodes[n].brush, worldBounds, snapToF, uvLock)
        IN IF r.ok
           THEN Brush_transform(r.brush, Translation(<<-1, 0, 0>>), uvLock, worldBounds)
           ELSE r,
        <<snapToF>>)
snapVertices(n, snapToF, uvLock) ==
    GuardedBrushOp("snapVertices", n, NoNode,
        Brush_snapVertices(nodes[n].brush, worldBounds, snapToF, uvLock), <<snapToF>>)
moveEdges(n, edges, delta, uvLock) ==
    \E r \in Brush_moveEdges(nodes[n].brush, worldBounds, edges, delta, uvLock) :
        GuardedBrushOp("moveEdges", n, NoNode, r, <<edges, delta>>)
moveFaces(n, polys, delta, uvLock) ==
    \E r \in Brush_moveFaces(nodes[n].brush, worldBounds, polys, delta, uvLock) :
        GuardedBrushOp("moveFaces", n, NoNode, r, <<polys, delta>>)
\* intersect that changes the brush of the other node.
intersect_intoOther(n, m) ==
    LET r == Brush_intersect(nodes[m].brush, worldBounds, nodes[n].brush)
    IN /\ nodes[n].exists
       /\ nodes[m].exists
       /\ nodes' = WithBrush(nodes, m, r.brush)
       /\ lastCall' = Call("intersect", n, m, Outcome(r), NoArgs)
       /\ log' = NotifyNodeChange(NotifyPhysicalBoundsChange(BrushCall(r)))
       /\ returned' = <<>>
intersect(n, m) ==
    /\ nodes[m].exists
    /\ GuardedBrushOp("intersect", n, m,
           Brush_intersect(nodes[n].brush, worldBounds, nodes[m].brush), NoArgs)
findIntegerPlanePoints(n) ==
    GuardedBrushOp("findIntegerPlanePoints", n, NoNode,
        Brush_findIntegerPlanePoints(nodes[n].brush, worldBounds), NoArgs)
doTransform(n, t, lockTextures) ==
    GuardedBrushOp("transform", n, NoNode,
        Brush_transform(nodes[n].brush, t, lockTextures, worldBounds), <<t>>)

\* The i-th node a call creates and returns; it is not in a slot.
FreshNode(i) == Cardinality(NodeIds) + i
\* ModelFactory::createBrush
createBrush(brush, i) == NewNode(Brush_setNode(brush, FreshNode(i)))
DefaultTextureName == "default"
Reversed(s) == [i \in DOMAIN s |-> s[Len(s) + 1 - i]]
\* subtract that hands the fragments back last first.
subtract_reversed(n, subtrahends) ==
    LET result == Reversed(Brush_subtract(nodes[n].brush, worldBounds, DefaultTextureName,
                               [i \in DOMAIN subtrahends |-> nodes[subtrahends[i]].brush]))
    IN /\ nodes[n].exists
       /\ \A i \in DOMAIN subtrahends : nodes[subtrahends[i]].exists
       /\ returned' = [i \in DOMAIN result |-> createBrush(result[i], i)]
       /\ lastCall' = Call("subtract", n, NoNode, "ok", subtrahends)
       /\ log' = <<"m_brush">> \o [i \in DOMAIN result |-> "createBrush"]
       /\ UNCHANGED nodes
\* subtract that takes off the first subtrahend only.
subtract_firstOnly(n, subtrahends) ==
    LET result == Brush_subtract(nodes[n].brush, worldBounds, DefaultTextureName,
                                 <<nodes[subtrahends[1]].brush>>)
    IN /\ nodes[n].exists
       /\ \A i \in DOMAIN subtrahends : nodes[subtrahends[i]].exists
       /\ returned' = [i \in DOMAIN result |-> createBrush(result[i], i)]
       /\ lastCall' = Call("subtract", n, NoNode, "ok", subtrahends)
       /\ log' = <<"m_brush">> \o [i \in DOMAIN result |-> "createBrush"]
       /\ UNCHANGED nodes
\* BrushNode::subtract(factory, worldBounds, defaultTextureName, subtrahends)
subtract(n, subtrahends) ==
    LET result == Brush_subtract(nodes[n].brush, worldBounds, DefaultTextureName,
                                 [i \in DOMAIN subtrahends |-> nodes[subtrahends[i]].brush])
    IN /\ nodes[n].exists
       /\ \A i \in DOMAIN subtrahends : nodes[subtrahends[i]].exists
       /\ returned' = [i \in DOMAIN result |-> createBrush(result[i], i)]
       /\ lastCall' = Call("subtract", n, NoNode, "ok", subtrahends)
       /\ log' = <<"m_brush">> \o [i \in DOMAIN result |-> "createBrush"]
       /\ UNCHANGED nodes
\* BrushNode::subtract(factory, worldBounds, defaultTextureName, subtrahend)
subtractOne(n, m) ==
    LET result == Brush_subtract1(nodes[n].brush, worldBounds, DefaultTextureName,
                                  nodes[m].brush)
    IN /\ nodes[n].exists
       /\ nodes[m].exists
       /\ returned' = [i \in DOMAIN result |-> createBrush(result[i], i)]
       /\ lastCall' = Call("subtract", n, NoNode, "ok", <<m>>)
       /\ log' = <<"m_brush">> \o [i \in DOMAIN result |-> "createBrush"]
       /\ UNCHANGED nodes

\* BrushNode::invalidateVertexCache, called on node n
BrushNode_invalidateVertexCache(n) ==
    /\ nodes[n].exists
    /\ nodes' = invalidateVertexCache(nodes, n)
    /\ lastCall' = Call("invalidateVertexCache", n, NoNode, "ok", NoArgs)
    /\ log' = <<"invalidateVertexCache">>
    /\ returned' = <<>>
\* The renderer reads the render geometry of node n: an invalid cache is
\* computed from the brush as it is now.
validateVertexCache(n) ==
    /\ nodes[n].exists
    /\ nodes' = [nodes EXCEPT ![n].vertexCacheValid = TRUE,
                              ![n].cachedBounds = IF nodes[n].vertexCacheValid
                                                  THEN nodes[n].cachedBounds
                                                  ELSE nodes[n].brush.bounds]
    /\ lastCall' = Call("validateVertexCache", n, NoNode, "ok", NoArgs)
    /\ log' = <<>>
    /\ returned' = <<>>

(***************************************************************************)
(* The cell layout: View/CellLayout.cpp                                    *)
(*                                                                         *)
(* Lengths are the floats of the code, taken from the integers; a scale    *)
(* is counted in hundredths.  The sizes used below make every quotient     *)
(* and every half come out even, so that nothing is rounded here or in     *)
(* the code.                                                               *)
(***************************************************************************)
\* The scale 1.0f.
ScaleOne == 100
\* The layouts looked at: so many groups, so many cells, so many parameters
\* away from the values of the constructor, and nothing added to a cleared
\* layout of no width that is higher than this (it keeps the height it had,
\* and what is added next adds to it).
MaxGroups == 2
MaxItems == 2
MaxChanged == 1
MaxEmptyHeight == 8

MkBounds(x, y, width, height) == [x |-> x, y |-> y, width |-> width, height |-> height]
\* LayoutBounds::right, LayoutBounds::bottom
Right(b) == b.x + b.width
Bottom(b) == b.y + b.height
\* LayoutBounds::containsPoint
LayoutBounds_containsPoint(b, px, py) ==
    px >= b.x /\ px <= Right(b) /\ py >= b.y /\ py <= Bottom(b)

\* An item is what addItem is given: the record of the item itself (item) and
\* of its itemWidth, itemHeight, titleWidth and titleHeight.
\* LayoutCell::doLayout: scale and bounds of the cell c for the limits lim
\* (maxUpScale, minCellWidth, maxCellWidth, maxCellHeight) and the minimal
\* height minHeight.
LayoutCell_doLayout(c, lim, minHeight) ==
    LET scale == MinOf({(lim.maxCellWidth * ScaleOne) \div c.itemWidth,
                        (lim.maxCellHeight * ScaleOne) \div c.itemHeight,
                        lim.maxUpScale})
        scaledItemWidth == (scale * c.itemWidth) \div ScaleOne
        scaledItemHeight == (scale * c.itemHeight) \div ScaleOne
        clippedTitleWidth == MinOf({c.titleWidth, lim.maxCellWidth})
        cellWidth == MaxOf({lim.minCellWidth, scaledItemWidth, clippedTitleWidth})
        cellHeight == MaxOf({minHeight,
                             MaxOf({minHeight, scaledItemHeight}) + c.titleHeight + c.titleMargin})
        itemY == c.y + MaxOf({0, cellHeight - c.titleHeight - scaledItemHeight - c.titleMargin})
    IN [c EXCEPT
          !.scale = scale,
          !.cellBounds = MkBounds(c.x, c.y, cellWidth, cellHeight),
          !.itemBounds = MkBounds(c.x + (cellWidth - scaledItemWidth) \div 2, itemY,
                                  scaledItemWidth, scaledItemHeight),
          !.titleBounds = MkBounds(c.x + (cellWidth - clippedTitleWidth) \div 2,
                                   itemY + scaledItemHeight + c.titleMargin,
                                   clippedTitleWidth, c.titleHeight)]

\* A row keeps its bounds, its cells and its minimal cell height; its other
\* members are those of its group (lim) and the width of the group's content
\* (maxWidth).
\* The cell that LayoutRow::canAddItem and LayoutRow::addItem make for a new
\* item, by LayoutCell::LayoutCell.
LayoutRow_nextCell(row, item, lim) ==
    LayoutCell_doLayout(
        [x |-> Right(row.bounds) + (IF row.cells # <<>> THEN lim.cellMargin ELSE 0),
         y |-> row.bounds.y, item |-> item.item,
         itemWidth |-> item.itemWidth, itemHeight |-> item.itemHeight,
         titleWidth |-> item.titleWidth, titleHeight |-> item.titleHeight,
         titleMargin |-> lim.titleMargin, scale |-> 0,
         cellBounds |-> MkBounds(0, 0, 0, 0), itemBounds |-> MkBounds(0, 0, 0, 0),
         titleBounds |-> MkBounds(0, 0, 0, 0)],
        lim, row.minCellHeight)
\* LayoutRow::canAddItem
LayoutRow_canAddItem(row, item, lim, maxWidth) ==
    LET width == row.bounds.width + (IF row.cells # <<>> THEN lim.cellMargin ELSE 0)
                     + LayoutRow_nextCell(row, item, lim).cellBounds.width
    IN IF lim.maxCellsPerRow = 0 /\ width > maxWidth /\ row.cells # <<>> THEN FALSE
       ELSE IF lim.maxCellsPerRow > 0 /\ Len(row.cells) >= lim.maxCellsPerRow - 1 THEN FALSE
       ELSE TRUE
\* LayoutRow::addItem with LayoutRow::readjustItems
LayoutRow_addItem(row, item, lim) ==
    LET with(cell) ==
            LET width == row.bounds.width + (IF row.cells # <<>> THEN lim.cellMargin ELSE 0)
                             + cell.cellBounds.width
                newItemRowHeight ==
                    cell.cellBounds.height - cell.titleBounds.height - lim.titleMargin
                readjust == newItemRowHeight > row.minCellHeight
                minCellHeight == IF readjust THEN newItemRowHeight ELSE row.minCellHeight
            IN [bounds |-> MkBounds(row.bounds.x, row.bounds.y, width,
                                    MaxOf({row.bounds.height, cell.cellBounds.height})),
                cells |-> (IF readjust
                           THEN [i \in DOMAIN row.cells |->
                                    LayoutCell_doLayout(row.cells[i], lim, minCellHeight)]
                           ELSE row.cells) \o <<cell>>,
                minCellHeight |-> minCellHeight]
    IN with(LayoutRow_nextCell(row, item, lim))

\* LayoutRow::cellAt: the index of the cell found, 0 for nullptr.
LayoutRow_cellAt(row, x, y) ==
    LET scan[i \in 1..(Len(row.cells) + 1)] ==
            IF i > Len(row.cells) THEN 0
            ELSE LET cellBounds == row.cells[i].cellBounds
                 IN IF x > Right(cellBounds) THEN scan[i + 1]
                    ELSE IF x < cellBounds.x THEN 0
                    ELSE IF LayoutBounds_containsPoint(cellBounds, x, y) THEN i
                    ELSE scan[i + 1]
    IN scan[1]

\* What a group hands to its rows and cells: the parameters of the layout at
\* the time the group was made.
Limits(L) ==
    [cellMargin |-> L.cellMargin, titleMargin |-> L.titleMargin, rowMargin |-> L.rowMargin,
     maxCellsPerRow |-> L.maxCellsPerRow, maxUpScale |-> L.maxUpScale,
     minCellWidth |-> L.minCellWidth, maxCellWidth |-> L.maxCellWidth,
     minCellHeight |-> L.minCellHeight, maxCellHeight |-> L.maxCellHeight]
\* LayoutGroup::LayoutGroup, with a title
LayoutGroup_titled(item, x, y, titleHeight, width, lim) ==
    [item |-> item,
     titleBounds |-> MkBounds(0, y, width + 2 * x, titleHeight),
     contentBounds |-> MkBounds(x, y + titleHeight + lim.rowMargin, width, 0),
     rows |-> <<>>, lim |-> lim]
\* LayoutGroup::LayoutGroup, without a title
LayoutGroup_untitled(x, y, width, lim) ==
    [item |-> "",
     titleBounds |-> MkBounds(x, y, width, 0),
     contentBounds |-> MkBounds(x, y, width, 0),
     rows |-> <<>>, lim |-> lim]
\* LayoutGroup::bounds
LayoutGroup_bounds(g) ==
    MkBounds(g.titleBounds.x, g.titleBounds.y, g.titleBounds.width,
             Bottom(g.contentBounds) - g.titleBounds.y)
\* LayoutGroup::indexOfRowAt, counting from 0 as the code does
LayoutGroup_indexOfRowAt(g, y) ==
    LET below == {i \in DOMAIN g.rows : y < Bottom(g.rows[i].bounds)}
    IN IF below = {} THEN Len(g.rows)
       ELSE (CHOOSE i \in below : \A j \in below : i <= j) - 1
\* LayoutGroup::cellAt: <<row, cell>> of the cell found, <<>> for nullptr.
LayoutGroup_cellAt(g, x, y) ==
    LET scan[i \in 1..(Len(g.rows) + 1)] ==
            IF i > Len(g.rows) THEN <<>>
            ELSE LET rowBounds == g.rows[i].bounds
                 IN IF y > Bottom(rowBounds) THEN scan[i + 1]
                    ELSE IF y < rowBounds.y THEN <<>>
                    ELSE IF LayoutRow_cellAt(g.rows[i], x, y) # 0
                         THEN <<i, LayoutRow_cellAt(g.rows[i], x, y)>>
                    ELSE scan[i + 1]
    IN scan[1]
\* LayoutGroup::addItem up to its assertion: the group with the row that is
\* to take the item as its last row.
LayoutGroup_withRowFor(g, item) ==
    LET LayoutRow_new(y) ==
            [bounds |-> MkBounds(g.contentBounds.x, y, 0, 0), cells |-> <<>>,
             minCellHeight |-> g.lim.minCellHeight]
        first == IF g.rows = <<>>
                 THEN [g EXCEPT !.rows = <<LayoutRow_new(g.contentBounds.y)>>]
                 ELSE g
        back == first.rows[Len(first.rows)]
    IN IF ~LayoutRow_canAddItem(back, item, g.lim, g.contentBounds.width)
       THEN LET row == LayoutRow_new(Bottom(back.bounds) + g.lim.rowMargin)
            IN [first EXCEPT
                  !.rows = Append(@, row),
                  !.contentBounds.height = @ + row.bounds.height + g.lim.rowMargin]
       ELSE first
\* The condition LayoutGroup::addItem asserts.
LayoutGroup_accepts(g, item) ==
    LET lastTakes(h) ==
            LayoutRow_canAddItem(h.rows[Len(h.rows)], item, g.lim, g.contentBounds.width)
    IN lastTakes(LayoutGroup_withRowFor(g, item))
\* LayoutGroup::addItem as a build without assertions runs it.
LayoutGroup_addItem(g, item) ==
    LET into(h) ==
            LET oldRow == h.rows[Len(h.rows)]
                set(newRow) ==
                    [h EXCEPT
                       !.rows[Len(h.rows)] = newRow,
                       !.contentBounds.height =
                           @ + (newRow.bounds.height - oldRow.bounds.height)]
            IN set(LayoutRow_addItem(oldRow, item, g.lim))
    IN into(LayoutGroup_withRowFor(g, item))

\* The cells of a layout: <<group, row, cell>> of each, in the order of the
\* layout.
AllCells(L) ==
    LET inGroup(g) ==
            LET upTo[r \in 0..Len(L.groups[g].rows)] ==
                    IF r = 0 THEN <<>>
                    ELSE upTo[r - 1] \o [c \in DOMAIN L.groups[g].rows[r].cells |-> <<g, r, c>>]
            IN upTo[Len(L.groups[g].rows)]
        upTo[g \in 0..Len(L.groups)] == IF g = 0 THEN <<>> ELSE upTo[g - 1] \o inGroup(g)
    IN upTo[Len(L.groups)]
\* CellLayout::CellLayout.  assertionsHeld is no member: it tells whether
\* every assertion met on the way to this layout held.  A build with
\* assertions stops where it turns false, a build without goes on as here.
CellLayout_new(maxCellsPerRow) ==
    [width |-> 1, cellMargin |-> 0, titleMargin |-> 0, rowMargin |-> 0, groupMargin |-> 0,
     outerMargin |-> 0, maxCellsPerRow |-> maxCellsPerRow, maxUpScale |-> ScaleOne,
     minCellWidth |-> 100, maxCellWidth |-> 100, minCellHeight |-> 100, maxCellHeight |-> 100,
     groups |-> <<>>, valid |-> FALSE, height |-> 0, assertionsHeld |-> TRUE]

\* A group added right below the group before it, without the group margin.
CellLayout_addGroup_withoutGroupMargin(L, groupItem, titleHeight) ==
    LET more == L.groups # <<>>
        y == IF more THEN Bottom(LayoutGroup_bounds(L.groups[Len(L.groups)])) ELSE 0
        group == LayoutGroup_titled(groupItem, L.outerMargin, y, titleHeight,
                                    L.width - 2 * L.outerMargin, Limits(L))
    IN [L EXCEPT
          !.groups = Append(@, group),
          !.height = @ + (IF more THEN L.groupMargin ELSE 0) + LayoutGroup_bounds(group).height]
\* CellLayout::addGroup past its call of validate, on the layout L that call
\* leaves.
CellLayout_addGroup(L, groupItem, titleHeight) ==
    LET more == L.groups # <<>>
        y == IF more THEN Bottom(LayoutGroup_bounds(L.groups[Len(L.groups)])) + L.groupMargin
             ELSE 0
        group == LayoutGroup_titled(groupItem, L.outerMargin, y, titleHeight,
                                    L.width - 2 * L.outerMargin, Limits(L))
    IN [L EXCEPT
          !.groups = Append(@, group),
          !.height = @ + (IF more THEN L.groupMargin ELSE 0) + LayoutGroup_bounds(group).height]
\* CellLayout::addItem past its call of validate, on the layout L that call
\* leaves.
CellLayout_addItem(L, item) ==
    LET into(M) ==
            LET back == M.groups[Len(M.groups)]
                set(group) ==
                    [M EXCEPT
                       !.groups[Len(M.groups)] = group,
                       !.height = @ + (LayoutGroup_bounds(group).height
                                          - LayoutGroup_bounds(back).height),
                       !.assertionsHeld = @ /\ LayoutGroup_accepts(back, item)]
            IN set(LayoutGroup_addItem(back, item))
    IN into(IF L.groups = <<>>
            THEN [L EXCEPT
                    !.groups = <<LayoutGroup_untitled(L.outerMargin, L.outerMargin,
                                                      L.width - 2 * L.outerMargin, Limits(L))>>,
                    !.height = @ + item.titleHeight
                                 + (IF item.titleHeight > 0 THEN L.rowMargin ELSE 0)]
            ELSE L)
\* A validation that forgets the groups.
CellLayout_validate_emptied(L) ==
    IF L.width <= 0 THEN L
    ELSE [L EXCEPT !.height = 2 * L.outerMargin, !.valid = TRUE, !.groups = <<>>]
\* CellLayout::validate.  It sets m_valid before it adds the groups and items
\* of the copy again, so that addGroup and addItem, called from here, find the
\* layout valid and call validate no more.
CellLayout_validate(L) ==
    IF L.width <= 0 THEN L
    ELSE LET copy == L.groups
             cellsOf(g) ==
                 LET upTo[i \in 0..Len(g.rows)] ==
                         IF i = 0 THEN <<>> ELSE upTo[i - 1] \o g.rows[i].cells
                 IN upTo[Len(g.rows)]
             itemOf(cell) ==
                 [item |-> cell.item,
                  itemWidth |-> (cell.itemBounds.width * ScaleOne) \div cell.scale,
                  itemHeight |-> (cell.itemBounds.height * ScaleOne) \div cell.scale,
                  titleWidth |-> cell.titleBounds.width,
                  titleHeight |-> cell.titleBounds.height]
             withItems(M, cells) ==
                 LET added[k \in 0..Len(cells)] ==
                         IF k = 0 THEN M ELSE CellLayout_addItem(added[k - 1], itemOf(cells[k]))
                 IN added[Len(cells)]
             withGroups[i \in 0..Len(copy)] ==
                 IF i = 0
                 THEN [L EXCEPT !.height = 2 * L.outerMargin, !.valid = TRUE, !.groups = <<>>]
                 ELSE withItems(CellLayout_addGroup(withGroups[i - 1], copy[i].item,
                                                    copy[i].titleBounds.height),
                                cellsOf(copy[i]))
         IN withGroups[Len(copy)]
\* An operation that takes the layout as it is.
Validated_asItIs(L) == L
\* What every operation on the results starts with: validate() if not m_valid.
Validated(L) == IF ~L.valid THEN CellLayout_validate(L) ELSE L
\* CellLayout::cellAt on a layout: <<group, row, cell>>, <<>> for nullptr.
CellLayout_cellAt(L, x, y) ==
    LET scan[i \in 1..(Len(L.groups) + 1)] ==
            IF i > Len(L.groups) THEN <<>>
            ELSE LET groupBounds == LayoutGroup_bounds(L.groups[i])
                 IN IF y > Bottom(groupBounds) THEN scan[i + 1]
                    ELSE IF y < groupBounds.y THEN <<>>
                    ELSE IF LayoutGroup_cellAt(L.groups[i], x, y) # <<>>
                         THEN <<i>> \o LayoutGroup_cellAt(L.groups[i], x, y)
                    ELSE scan[i + 1]
    IN scan[1]
\* The two loops of CellLayout::rowPosition over the groups: back while the
\* row index is negative, on while it is past the rows of the group.  A group
\* index counts from 1 here, a row index from 0 as in the code.
\* A walk that stays in the group it starts in.
GroupWalk_staying(gs, groupIndex, newIndex) == <<groupIndex, newIndex>>
RECURSIVE GroupWalk(_, _, _)
GroupWalk(gs, groupIndex, newIndex) ==
    IF newIndex < 0 /\ groupIndex > 1
    THEN GroupWalk(gs, groupIndex - 1, newIndex + Len(gs[groupIndex - 1].rows))
    ELSE IF newIndex >= 0 /\ groupIndex < Len(gs) /\ newIndex >= Len(gs[groupIndex].rows)
    THEN GroupWalk(gs, groupIndex + 1, newIndex - Len(gs[groupIndex].rows))
    ELSE <<groupIndex, newIndex>>
\* CellLayout::rowPosition on a layout
CellLayout_rowPosition(L, y, offset) ==
    LET reached == {i \in DOMAIN L.groups :
                       ~(y + L.rowMargin > Bottom(LayoutGroup_bounds(L.groups[i])))}
    IN IF reached = {} \/ offset = 0 THEN y
       ELSE LET groupIndex == CHOOSE i \in reached : \A j \in reached : i <= j
                newIndex == LayoutGroup_indexOfRowAt(L.groups[groupIndex], y) + offset
                at == GroupWalk(L.groups, groupIndex, newIndex)
            IN IF at[2] >= 0 /\ at[2] < Len(L.groups[at[1]].rows)
               THEN L.groups[at[1]].rows[at[2] + 1].bounds.y
               ELSE y

\* A call to the layout starts when the caller is between two calls; it
\* leaves the layout L and returns result.
LayoutReturns(op, args, L, result) ==
    /\ layoutCall.op = "none"
    /\ layout' = L
    /\ layoutCall' = [op |-> op, args |-> args, result |-> result]
    /\ UNCHANGED <<nodes, lastCall, log, returned, entity, queryCall>>
\* A setter that stores what it is given and invalidates, whatever was stored.
Setter_invalidating(op, members, values) ==
    LayoutReturns(op, values,
                  [m \in DOMAIN layout |->
                      IF m = "valid" THEN FALSE
                      ELSE IF \E i \in DOMAIN members : members[i] = m
                           THEN values[CHOOSE i \in DOMAIN members : members[i] = m]
                           ELSE layout[m]],
                  <<>>)
\* The setters: CellLayout::setTitleMargin ... CellLayout::setMaxUpScale and
\* CellLayout::setWidth, each with the members it sets and the values for
\* them.  At most MaxChanged parameters are away from the values of the
\* constructor at a time.
Setter(op, members, values) ==
    LET differs == \E i \in DOMAIN members : layout[members[i]] # values[i]
        set == [m \in DOMAIN layout |->
                   IF m = "valid" THEN FALSE
                   ELSE IF \E i \in DOMAIN members : members[i] = m
                        THEN values[CHOOSE i \in DOMAIN members : members[i] = m]
                        ELSE layout[m]]
        changed == {m \in DOMAIN Limits(set) \cup {"width", "groupMargin", "outerMargin"} :
                       set[m] # CellLayout_new(layout.maxCellsPerRow)[m]}
    IN /\ Cardinality(changed) <= MaxChanged
       /\ LayoutReturns(op, values, IF differs THEN set ELSE layout, <<>>)
\* CellLayout::invalidate
invalidate ==
    LayoutReturns("invalidate", <<>>, [layout EXCEPT !.valid = FALSE], <<>>)
\* CellLayout::clear
clear ==
    LayoutReturns("clear", <<>>, [layout EXCEPT !.groups = <<>>, !.valid = FALSE], <<>>)
\* CellLayout::height
height ==
    \E L \in {Validated(layout)} :
        LayoutReturns("height", <<>>, L, <<L.height>>)
\* CellLayout::groups; what it returns is m_groups of the layout.
groups ==
    LayoutReturns("groups", <<>>, Validated(layout), <<>>)
\* CellLayout::cellAt
cellAt(x, y) ==
    \E L \in {Validated(layout)} :
        LayoutReturns("cellAt", <<x, y>>, L, CellLayout_cellAt(L, x, y))
\* CellLayout::rowPosition
rowPosition(y, offset) ==
    \E L \in {Validated(layout)} :
        LayoutReturns("rowPosition", <<y, offset>>, L,
                      <<CellLayout_rowPosition(L, y, offset)>>)
\* CellLayout::addGroup, for a layout of less than MaxGroups groups that, if
\* it is empty and has no width, is of at most MaxEmptyHeight
addGroup(groupItem, titleHeight) ==
    /\ Len(layout.groups) < MaxGroups
    /\ (layout.groups = <<>> /\ layout.width <= 0) => layout.height <= MaxEmptyHeight
    /\ LayoutReturns("addGroup", <<groupItem, titleHeight>>,
                     CellLayout_addGroup(Validated(layout), groupItem, titleHeight), <<>>)
\* CellLayout::addItem, for a layout of less than MaxItems cells that, if it
\* is empty and has no width, is of at most MaxEmptyHeight
addItem(item) ==
    /\ Len(AllCells(layout)) < MaxItems
    /\ (layout.groups = <<>> /\ layout.width <= 0) => layout.height <= MaxEmptyHeight
    /\ LayoutReturns("addItem", <<item>>, CellLayout_addItem(Validated(layout), item), <<>>)

(***************************************************************************)
(* The rotation policy: Model/EntityRotationPolicy.cpp                     *)
(*                                                                         *)
(* An entity is the record of its properties (a function from the keys it  *)
(* has to their values, which are strings), of whether it is a point       *)
(* entity, of the x and y of the center of its definition bounds and of    *)
(* the pitch type of its model.  Entity.cpp and vecmath are not among the  *)
(* sources.                                                                *)
(*                                                                         *)
(* A number is a double of the program, <<sign, magnitude, tiny>>: the     *)
(* sign is 1 or -1, the magnitude counts whole degrees in an angle and     *)
(* ten-thousandths in a coordinate, and tiny is true of a number that is   *)
(* not 0 but too small to count.  Zero has a sign, as it has on doubles,   *)
(* and the cosine of 90 degrees is tiny rather than 0, for pi is not a     *)
(* double.  NaN, which 0 / 0 and every operation on a NaN give, has the    *)
(* sign 0: neither IEEE 754 nor C++ says what the sign bit of a NaN is, it *)
(* is what the compiler and the processor make it, and a NaN is written    *)
(* with either sign.  A direction is a vector <<x, y, z>>, a rotation is the    *)
(* matrix of its four rows of four entries, of which the last row and the  *)
(* last column are those of the identity unless a NaN has reached them.  A *)
(* transformation is handed over as a matrix of three rows of three whole  *)
(* numbers; it has no translation.                                         *)
(***************************************************************************)
\* The double of a whole number of units; that of 0 is +0.
Double(v) == <<IF v < 0 THEN -1 ELSE 1, IF v < 0 THEN 0 - v ELSE v, FALSE>>
\* std::numeric_limits<double>::quiet_NaN
NaN == <<0, 0, FALSE>>
\* std::isnan
IsNaN(a) == a[1] = 0
\* a is +0 or -0.
IsZero(a) == a[1] # 0 /\ a[2] = 0 /\ ~a[3]
\* -a
dNeg(a) == <<0 - a[1], a[2], a[3]>>
\* a + b: the sum of two zeros is -0 only if both are, a zero adds nothing,
\* a tiny number adds nothing to one that counts, and two numbers that sum up
\* to nothing give +0.  Two tiny numbers of opposite sign have no sum here.
dAdd(a, b) ==
    CASE IsNaN(a) \/ IsNaN(b) -> NaN
      [] IsZero(a) /\ IsZero(b) -> <<IF a[1] = -1 /\ b[1] = -1 THEN -1 ELSE 1, 0, FALSE>>
      [] IsZero(a) /\ ~IsZero(b) -> b
      [] ~IsZero(a) /\ IsZero(b) -> a
      [] a[3] /\ b[3] /\ a[1] = b[1] -> a
      [] a[3] /\ b[2] > 0 -> b
      [] a[2] > 0 /\ b[3] -> a
      [] a[2] > 0 /\ b[2] > 0 -> Double(a[1] * a[2] + b[1] * b[2])
\* a - b
dSub(a, b) == dAdd(a, dNeg(b))
\* a * b of two coordinates: the sign is the product of the signs, also of a
\* zero.
dMul(a, b) ==
    LET m == (a[2] * b[2] + 5000) \div 10000
    IN IF IsNaN(a) \/ IsNaN(b) THEN NaN
       ELSE IF IsZero(a) \/ IsZero(b) THEN <<a[1] * b[1], 0, FALSE>>
       ELSE <<a[1] * b[1], m, m = 0>>
\* a / b of two coordinates, b not tiny: 0 / 0 is NaN; b is 0 only if a is 0
\* or NaN.
dDiv(a, b) ==
    LET m == (a[2] * 10000 + b[2] \div 2) \div b[2]
    IN IF IsNaN(a) \/ IsNaN(b) \/ (IsZero(a) /\ IsZero(b)) THEN NaN
       ELSE IF IsZero(a) THEN <<a[1] * b[1], 0, FALSE>>
       ELSE <<a[1] * b[1], m, m = 0>>
\* a < b; the two zeros are equal, and nothing is less than a NaN or more.
dLess(a, b) ==
    LET rank(c) == 2 * c[1] * c[2] + (IF c[3] THEN c[1] ELSE 0)
    IN ~IsNaN(a) /\ ~IsNaN(b) /\ rank(a) < rank(b)
\* std::sqrt of a whole number, to the nearest whole number.
sqrt(n) ==
    LET RECURSIVE floor(_, _)
        floor(lo, hi) ==
            IF lo = hi THEN lo
            ELSE LET mid == (lo + hi + 1) \div 2
                 IN IF mid * mid <= n THEN floor(mid, hi) ELSE floor(lo, mid - 1)
        root(r) == IF n - r * r > r THEN r + 1 ELSE r
    IN root(floor(0, 40000))

\* Entity::Entity
Entity_new ==
    [properties |-> [k \in {} |-> ""], pointEntity |-> TRUE, definitionCenter |-> <<0, 0>>,
     pitchType |-> "Normal"]
\* Entity::classname: the value of the classname, EntityPropertyValues::
\* NoClassname if there is none.
Entity_classname(e) ==
    IF "classname" \in DOMAIN e.properties THEN e.properties["classname"] ELSE "undefined"
\* Entity::addOrUpdateProperty
Entity_addOrUpdateProperty(e, key, value) ==
    [e EXCEPT !.properties = [k \in DOMAIN @ \cup {key} |-> IF k = key THEN value ELSE @[k]]]

\* std::atof on the strings of the model, which reads the number the string
\* starts with: a sign, digits, and a fraction of zeros that adds nothing;
\* +0 if no digit comes first, -0 for "-0", NaN for nan with or without
\* sign.
atof(s) ==
    LET isDigit(i) == \E d \in 1..10 : SubSeq("0123456789", d, d) = SubSeq(s, i, i)
        digit(i) == (CHOOSE d \in 1..10 : SubSeq("0123456789", d, d) = SubSeq(s, i, i)) - 1
        negative == Len(s) > 0 /\ SubSeq(s, 1, 1) = "-"
        first == IF negative THEN 2 ELSE 1
        last == CHOOSE l \in (first - 1)..Len(s) :
                    /\ \A i \in first..l : isDigit(i)
                    /\ l = Len(s) \/ ~isDigit(l + 1)
        value[i \in (first - 1)..last] == IF i < first THEN 0 ELSE 10 * value[i - 1] + digit(i)
    IN IF Len(s) >= first + 2 /\ SubSeq(s, first, first + 2) = "nan" THEN NaN
       ELSE <<IF negative /\ last >= first THEN -1 ELSE 1, value[last], FALSE>>
\* vm::parse<FloatType, 3>(str).value_or(vm::vec3::zero()), of vecmath: for
\* each of the three components the parser skips blanks (find_first_not_of),
\* reads the number that starts there with std::atof and goes on to the
\* next blank (find_first_of).  It fails, and the value is zero, if the
\* string ends before the third component starts; what follows the third
\* component is not read.  A position is an index from 1, npos is 0.
vm_parse(s) ==
    LET npos == 0
        blank(i) == SubSeq(s, i, i) \in {" ", "\t", "\n", "\r", "(", ")"}
        first(positions) ==
            IF positions = {} THEN npos
            ELSE CHOOSE i \in positions : \A j \in positions : i <= j
        find_first_not_of(pos) == first({i \in pos..Len(s) : ~blank(i)})
        find_first_of(pos) == first({i \in pos..Len(s) : blank(i)})
        RECURSIVE doParse(_, _, _)
        doParse(i, pos, result) ==
            LET read(start) ==
                    LET next(end) ==
                            IF end = npos /\ i < 3 THEN <<>>
                            ELSE doParse(i + 1, end,
                                         Append(result, atof(SubSeq(s, start, Len(s)))))
                    IN IF start = npos THEN <<>> ELSE next(find_first_of(start))
            IN IF i > 3 THEN result ELSE read(find_first_not_of(pos))
        value_or(parsed, default) == IF parsed = <<>> THEN default ELSE parsed
    IN value_or(doParse(1, 1, <<>>), <<Double(0), Double(0), Double(0)>>)
\* vm::round of an angle: a tiny angle is rounded to the zero of its sign.
vm_round(a) == <<a[1], a[2], FALSE>>
\* kdl::str_to_string of a rounded number (a vector of one component) or
\* vector: the decimal numbers of its components with a blank between them,
\* -0 written as "-0".  The stream writes a NaN as nan or, where its sign bit
\* is set, as -nan; which of the two a computed NaN is differs from build to
\* build, so the value is the set of the strings a build may write.
str_to_string(v) ==
    LET natural[n \in 0..999] ==
            IF n < 10 THEN SubSeq("0123456789", n + 1, n + 1)
            ELSE natural[n \div 10] \o SubSeq("0123456789", (n % 10) + 1, (n % 10) + 1)
        number(a) == IF IsNaN(a) THEN {"nan", "-nan"}
                     ELSE IF a[1] < 0 THEN {"-" \o natural[a[2]]} ELSE {natural[a[2]]}
        upTo[i \in 1..Len(v)] ==
            IF i = 1 THEN number(v[1])
            ELSE {s \o " " \o c : s \in upTo[i - 1], c \in number(v[i])}
    IN upTo[Len(v)]

\* std::cos and std::sin of vm::to_radians(angle), for an angle that is 0,
\* tiny, NaN or a whole number of degrees 0, 1 or 2 degrees from a multiple
\* of 90: <<cos, sin>>.  The sine of a zero is that zero.  At a multiple q of
\* 90 degrees other than 0 the radians are q times a half of pi as a double,
\* which is less than pi, so that what would be 0 is tiny, with the sign
\* the cosine or sine has just before the angle (after it if q < 0).
CosSin(angle) ==
    LET Tiny(sign) == <<sign, 0, TRUE>>
        table(r) ==
            CASE r = 0 -> <<10000, 0>> [] r = 1 -> <<9998, 175>> [] r = 2 -> <<9994, 349>>
              [] r = 88 -> <<349, 9994>> [] r = 89 -> <<175, 9998>>
        turned(quarter, cs) ==
            CASE quarter = 0 -> cs
              [] quarter = 1 -> <<0 - cs[2], cs[1]>>
              [] quarter = 2 -> <<0 - cs[1], 0 - cs[2]>>
              [] quarter = 3 -> <<cs[2], 0 - cs[1]>>
        at(r, q, side, cs) ==
            IF r # 0 THEN <<Double(cs[1]), Double(cs[2])>>
            ELSE IF q % 2 = 1
                 THEN <<Tiny(IF q % 4 = 1 THEN side ELSE 0 - side), Double(cs[2])>>
                 ELSE <<Double(cs[1]), Tiny(IF q % 4 = 0 THEN 0 - side ELSE side)>>
        ofDegrees(v) ==
            at(v % 90, v \div 90, IF v > 0 THEN 1 ELSE -1,
               turned((v % 360) \div 90, table(v % 90)))
    IN IF IsNaN(angle) THEN <<NaN, NaN>>
       ELSE IF angle[2] = 0 THEN <<Double(10000), angle>>
       ELSE ofDegrees(angle[1] * angle[2])
\* vm::mat4x4::identity
mat_identity ==
    <<<<Double(10000), Double(0), Double(0), Double(0)>>,
      <<Double(0), Double(10000), Double(0), Double(0)>>,
      <<Double(0), Double(0), Double(10000), Double(0)>>,
      <<Double(0), Double(0), Double(0), Double(10000)>>>>
\* The matrix of three rows of three numbers, completed by the last row and
\* column of the identity.
mat4x4(rows) ==
    <<Append(rows[1], Double(0)), Append(rows[2], Double(0)), Append(rows[3], Double(0)),
      mat_identity[4]>>
\* matrix * matrix, of vecmath: each entry is summed up from +0.
MatMul(l, r) ==
    LET entry(i, j) ==
            dAdd(dAdd(dAdd(dAdd(Double(0), dMul(l[i][1], r[1][j])), dMul(l[i][2], r[2][j])),
                      dMul(l[i][3], r[3][j])),
                 dMul(l[i][4], r[4][j]))
        row(i) == <<entry(i, 1), entry(i, 2), entry(i, 3), entry(i, 4)>>
    IN <<row(1), row(2), row(3), row(4)>>
\* matrix * vector, of vecmath: the matrix times the vector with a fourth
\* coordinate 1, each coordinate summed up from +0, and the first three
\* coordinates of the product divided by the fourth.
MatVec(m, v) ==
    LET product(h) ==
            LET coordinate(i) ==
                    dAdd(dAdd(dAdd(dAdd(Double(0), dMul(m[i][1], h[1])), dMul(m[i][2], h[2])),
                              dMul(m[i][3], h[3])),
                         dMul(m[i][4], h[4]))
            IN <<coordinate(1), coordinate(2), coordinate(3), coordinate(4)>>
        to_cartesian_coords(p) == <<dDiv(p[1], p[4]), dDiv(p[2], p[4]), dDiv(p[3], p[4])>>
    IN to_cartesian_coords(product(<<v[1], v[2], v[3], Double(10000)>>))
\* vm::strip_translation: the first three entries of the last column are 0.
strip_translation(m) ==
    LET row(i) == <<m[i][1], m[i][2], m[i][3], Double(0)>>
    IN <<row(1), row(2), row(3), m[4]>>
\* vm::rotation_matrix(axis, vm::to_radians(angle)) for the axis
\* vm::vec3::pos_z() and an angle in degrees
rotation_matrix_z(angle) ==
    LET axis == <<Double(0), Double(0), Double(10000)>>
        of(s, c, i) ==
            LET ix == dMul(i, axis[1])
                ix2 == dMul(ix, axis[1])
                ixy == dMul(ix, axis[2])
                ixz == dMul(ix, axis[3])
                iy == dMul(i, axis[2])
                iy2 == dMul(iy, axis[2])
                iyz == dMul(iy, axis[3])
                iz2 == dMul(dMul(i, axis[3]), axis[3])
                sx == dMul(s, axis[1])
                sy == dMul(s, axis[2])
                sz == dMul(s, axis[3])
            IN mat4x4(<<<<dAdd(ix2, c), dAdd(ixy, sz), dSub(ixz, sy)>>,
                        <<dSub(ixy, sz), dAdd(iy2, c), dAdd(iyz, sx)>>,
                        <<dAdd(ixz, sy), dSub(iyz, sx), dAdd(iz2, c)>>>>)
        ofCosSin(cs) == of(cs[2], cs[1], dSub(Double(10000), cs[1]))
    IN ofCosSin(CosSin(dNeg(angle)))
\* vm::rotation_matrix(roll, pitch, yaw) of three angles in degrees, of
\* vecmath: the product Y * P * R of the yaw about z, the pitch about y and
\* the roll about x.
rotation_matrix(roll, pitch, yaw) ==
    LET zero == Double(0)
        one == Double(10000)
        R(Cr, Sr) == mat4x4(<<<<one, zero, zero>>, <<zero, Cr, dNeg(Sr)>>, <<zero, Sr, Cr>>>>)
        P(Cp, Sp) == mat4x4(<<<<Cp, zero, Sp>>, <<zero, one, zero>>, <<dNeg(Sp), zero, Cp>>>>)
        Y(Cy, Sy) == mat4x4(<<<<Cy, dNeg(Sy), zero>>, <<Sy, Cy, zero>>, <<zero, zero, one>>>>)
        ofCosSin(r, p, y) == MatMul(MatMul(Y(y[1], y[2]), P(p[1], p[2])), R(r[1], r[2]))
    IN ofCosSin(CosSin(roll), CosSin(pitch), CosSin(yaw))
\* vm::mat4x4::rot_90_y_cw: it turns pos_x up.
rot_90_y_cw ==
    mat4x4(<<<<Double(0), Double(0), Double(-10000)>>,
             <<Double(0), Double(10000), Double(0)>>,
             <<Double(10000), Double(0), Double(0)>>>>)
\* vm::mat4x4::rot_90_y_ccw: it turns pos_x down.
rot_90_y_ccw ==
    mat4x4(<<<<Double(0), Double(0), Double(10000)>>,
             <<Double(0), Double(10000), Double(0)>>,
             <<Double(-10000), Double(0), Double(0)>>>>)
\* vm::cross
cross(lhs, rhs) ==
    <<dSub(dMul(lhs[2], rhs[3]), dMul(lhs[3], rhs[2])),
      dSub(dMul(lhs[3], rhs[1]), dMul(lhs[1], rhs[3])),
      dSub(dMul(lhs[1], rhs[2]), dMul(lhs[2], rhs[1]))>>
\* vm::normalize: the vector divided by its length.  The zero vector has the
\* length 0 and every coordinate becomes NaN, as do all coordinates of a
\* vector with a NaN.  A vector whose only coordinate that is not 0 is tiny
\* has a length that is not 0: that coordinate becomes 1 or -1.  A vector of
\* more than one tiny coordinate and nothing that counts has no value here.
normalize(v) ==
    LET by(length) == <<dDiv(v[1], length), dDiv(v[2], length), dDiv(v[3], length)>>
        one(i) == IF v[i][3] THEN <<v[i][1], 10000, FALSE>> ELSE v[i]
        counted == v[1][2] * v[1][2] + v[2][2] * v[2][2] + v[3][2] * v[3][2]
        tiny == {i \in 1..3 : v[i][3]}
    IN CASE \E i \in 1..3 : IsNaN(v[i]) -> <<NaN, NaN, NaN>>
         [] (\A i \in 1..3 : ~IsNaN(v[i])) /\ counted > 0 -> by(Double(sqrt(counted)))
         [] (\A i \in 1..3 : ~IsNaN(v[i])) /\ counted = 0 /\ tiny = {} -> by(Double(0))
         [] (\A i \in 1..3 : ~IsNaN(v[i])) /\ counted = 0 /\ Cardinality(tiny) = 1 ->
              <<one(1), one(2), one(3)>>

\* The same table taking every entity that is no light for a brush entity.
rotationInfo_ofBrushEntity(e) ==
    LET eulerType == IF e.pitchType = "MdlInverted" THEN "Euler" ELSE "Euler_PositivePitchDown"
        classname == Entity_classname(e)
        has(key) == key \in DOMAIN e.properties
        info(type, propertyKey, usage) ==
            [type |-> type, propertyKey |-> propertyKey, usage |-> usage]
    IN IF classname # "undefined"
       THEN IF Len(classname) >= 5 /\ SubSeq(classname, 1, 5) = "light"
            THEN IF has("mangle") THEN info("Mangle", "mangle", "Allowed")
                 ELSE IF ~has("target")
                      THEN IF has("angles") THEN info(eulerType, "angles", "Allowed")
                           ELSE info("Angle", "angle", "Allowed")
                      ELSE info("None", "", "Allowed")
            ELSE IF has("angles") THEN info(eulerType, "angles", "Allowed")
                 ELSE IF has("mangle") THEN info(eulerType, "mangle", "Allowed")
                 ELSE IF has("angle") THEN info("AngleUpDown", "angle", "Allowed")
                 ELSE info("None", "", "Allowed")
       ELSE info("None", "", "Allowed")
\* EntityRotationPolicy::rotationInfo
rotationInfo(e) ==
    LET eulerType == IF e.pitchType = "MdlInverted" THEN "Euler" ELSE "Euler_PositivePitchDown"
        classname == Entity_classname(e)
        has(key) == key \in DOMAIN e.properties
        info(type, propertyKey, usage) ==
            [type |-> type, propertyKey |-> propertyKey, usage |-> usage]
    IN IF classname # "undefined"
       THEN IF Len(classname) >= 5 /\ SubSeq(classname, 1, 5) = "light"
            THEN IF has("mangle") THEN info("Mangle", "mangle", "Allowed")
                 ELSE IF ~has("target")
                      THEN IF has("angles") THEN info(eulerType, "angles", "Allowed")
                           ELSE info("Angle", "angle", "Allowed")
                      ELSE info("None", "", "Allowed")
            ELSE IF ~e.pointEntity
                 THEN IF has("angles") THEN info(eulerType, "angles", "Allowed")
                      ELSE IF has("mangle") THEN info(eulerType, "mangle", "Allowed")
                      ELSE IF has("angle") THEN info("AngleUpDown", "angle", "Allowed")
                      ELSE info("None", "", "Allowed")
                 ELSE LET usage == IF e.definitionCenter # <<0, 0>> THEN "BlockRotation"
                                   ELSE "Allowed"
                      IN IF has("angles") THEN info(eulerType, "angles", usage)
                         ELSE IF has("mangle") THEN info(eulerType, "mangle", usage)
                         ELSE info("AngleUpDown", "angle", usage)
       ELSE info("None", "", "Allowed")
\* EntityRotationPolicy::getPropertyKey
EntityRotationPolicy_getPropertyKey(e) == rotationInfo(e).propertyKey
\* EntityRotationPolicy::getRotation
EntityRotationPolicy_getRotation(e) ==
    LET upDown(angle) ==
            IF angle = Double(-1) THEN rot_90_y_cw
            ELSE IF angle = Double(-2) THEN rot_90_y_ccw
            ELSE rotation_matrix_z(angle)
        euler(angles) == rotation_matrix(angles[3], dNeg(angles[1]), angles[2])
        eulerPositivePitchDown(angles) == rotation_matrix(angles[3], angles[1], angles[2])
        mangle(angles) == rotation_matrix(angles[3], dNeg(angles[2]), angles[1])
        ofValue(info, angleValue) ==
            CASE info.type = "Angle" ->
                   IF angleValue = "" THEN mat_identity
                   ELSE rotation_matrix_z(atof(angleValue))
              [] info.type = "AngleUpDown" ->
                   IF angleValue = "" THEN mat_identity ELSE upDown(atof(angleValue))
              [] info.type = "Euler" -> euler(vm_parse(angleValue))
              [] info.type = "Euler_PositivePitchDown" ->
                   eulerPositivePitchDown(vm_parse(angleValue))
              [] info.type = "Mangle" -> mangle(vm_parse(angleValue))
              [] info.type = "None" -> mat_identity
        ofInfo(info) ==
            ofValue(info, IF info.propertyKey \in DOMAIN e.properties
                          THEN e.properties[info.propertyKey] ELSE "")
    IN ofInfo(rotationInfo(e))
\* EntityRotationPolicy::getAngle: std::acos of the directions a rotation of
\* the model gives, in degrees and rounded.  A direction with x and y both 0
\* or with a NaN is normalized to NaNs, and the angle is NaN.
getAngle(direction) ==
    LET ofFlat(d) ==
            LET x == d[1][1] * d[1][2]
                acos == CASE x = 10000 -> 0 [] x = 9998 -> 1 [] x = 9994 -> 2 [] x = 349 -> 88
                          [] x = 175 -> 89 [] x = 0 -> 90 [] x = -175 -> 91 [] x = -349 -> 92
                          [] x = -9994 -> 178 [] x = -9998 -> 179 [] x = -10000 -> 180
            IN IF IsNaN(d[1]) THEN NaN
               ELSE Double((IF dLess(d[2], Double(0)) THEN 360 - acos ELSE acos) % 360)
    IN ofFlat(normalize(<<direction[1], direction[2], Double(0)>>))
\* An angle that is computed and not written.
setAngle_unwritten(e, propertyKey, direction) == {e}
\* EntityRotationPolicy::setAngle: the entities the call may leave, one for
\* each string the angle may be written as.
setAngle(e, propertyKey, direction) ==
    {Entity_addOrUpdateProperty(e, propertyKey, value) :
        value \in str_to_string(<<vm_round(getAngle(direction))>>)}
\* vm::rotation_matrix_to_euler_angles of the matrix of the columns rotMat:
\* <<roll, pitch, yaw>>, here in degrees.  The arc sine is that of a
\* coordinate that is 0, tiny or the sine of an angle CosSin knows, the arc
\* tangent that of a point (x, y) on the unit circle at such an angle: it has
\* the sign of y, also where y is a zero.  Each function of a NaN is NaN.
rotation_matrix_to_euler_angles(rotMat) ==
    LET asin(x) ==
            IF x[2] = 0 THEN x
            ELSE <<x[1], CASE x[2] = 175 -> 1 [] x[2] = 349 -> 2 [] x[2] = 9994 -> 88
                           [] x[2] = 9998 -> 89 [] x[2] = 10000 -> 90, FALSE>>
        atan2(y, x) ==
            LET at(c) ==
                    CASE c = 10000 -> 0 [] c = 9998 -> 1 [] c = 9994 -> 2 [] c = 349 -> 88
                      [] c = 175 -> 89 [] c = 0 -> 90 [] c = -175 -> 91 [] c = -349 -> 92
                      [] c = -9994 -> 178 [] c = -9998 -> 179 [] c = -10000 -> 180
                of(acos) == <<y[1], acos, acos = 0 /\ y[3]>>
            IN IF IsNaN(y) \/ IsNaN(x) THEN NaN ELSE of(at(x[1] * x[2]))
        of(theta, cosTheta) ==
            IF rotMat[1][3][2] # 10000
            THEN <<atan2(dDiv(rotMat[2][3], cosTheta), dDiv(rotMat[3][3], cosTheta)),
                   theta,
                   atan2(dDiv(rotMat[1][2], cosTheta), dDiv(rotMat[1][1], cosTheta))>>
            ELSE IF rotMat[1][3][1] = -1
                 THEN <<atan2(rotMat[2][1], rotMat[3][1]), Double(90), Double(0)>>
                 ELSE <<atan2(dNeg(rotMat[2][1]), dNeg(rotMat[3][1])), Double(-90), Double(0)>>
        ofTheta(theta) == of(theta, CosSin(theta)[1])
    IN ofTheta(dNeg(asin(rotMat[1][3])))
\* EntityRotationPolicy::getYawPitchRoll: <<yaw, pitch, roll>> in degrees.
getYawPitchRoll(transformation, rotation) ==
    LET pos_x == <<Double(10000), Double(0), Double(0)>>
        pos_z == <<Double(0), Double(0), Double(10000)>>
        ofAxes(newPosX, newPosY) ==
            rotation_matrix_to_euler_angles(
                <<newPosX, newPosY, normalize(cross(newPosX, newPosY))>>)
        ofX(M, newPosX) == ofAxes(newPosX, normalize(cross(MatVec(M, pos_z), newPosX)))
        ofM(M) == ofX(M, normalize(MatVec(M, pos_x)))
        ofAngles(rollPitchYaw) == <<rollPitchYaw[3], rollPitchYaw[2], rollPitchYaw[1]>>
    IN ofAngles(ofM(MatMul(strip_translation(transformation), strip_translation(rotation))))
\* EntityRotationPolicy::applyRotation, the transformation a matrix of three
\* rows of three whole numbers: the entities the call may leave, one unless a
\* NaN is written.
EntityRotationPolicy_applyRotation(e, transformation) ==
    LET pos_x == <<Double(10000), Double(0), Double(0)>>
        rounded(v) == str_to_string(<<vm_round(v[1]), vm_round(v[2]), vm_round(v[3])>>)
        write(info, direction, yawPitchRoll) ==
            LET set(values) ==
                    {Entity_addOrUpdateProperty(e, info.propertyKey, value) : value \in values}
            IN IF info.usage = "BlockRotation" THEN {e}
               ELSE CASE info.type = "Angle" -> setAngle(e, info.propertyKey, direction)
                      [] info.type = "AngleUpDown" ->
                           IF dLess(Double(9000), direction[3]) THEN set({"1.0"})
                           ELSE IF dLess(direction[3], Double(-9000)) THEN set({"-1.0"})
                           ELSE setAngle(e, info.propertyKey, direction)
                      [] info.type = "Euler" ->
                           set(rounded(<<dNeg(yawPitchRoll[2]), yawPitchRoll[1],
                                         yawPitchRoll[3]>>))
                      [] info.type = "Euler_PositivePitchDown" ->
                           set(rounded(<<yawPitchRoll[2], yawPitchRoll[1], yawPitchRoll[3]>>))
                      [] info.type = "Mangle" ->
                           set(rounded(<<yawPitchRoll[1], dNeg(yawPitchRoll[2]),
                                         yawPitchRoll[3]>>))
                      [] info.type = "None" -> {e}
        ofRotation(matrix, rotation) ==
            write(rotationInfo(e), normalize(MatVec(MatMul(matrix, rotation), pos_x)),
                  getYawPitchRoll(matrix, rotation))
        row(i) == <<Double(10000 * transformation[i][1]), Double(10000 * transformation[i][2]),
                    Double(10000 * transformation[i][3])>>
    IN ofRotation(mat4x4(<<row(1), row(2), row(3)>>), EntityRotationPolicy_getRotation(e))

\* A call to the policy or to a query starts when the caller is between two
\* calls; it leaves the entity e and returns result.
QueryReturns(op, args, e, result) ==
    /\ queryCall.op = "none"
    /\ entity' = e
    /\ queryCall' = [op |-> op, args |-> args, result |-> result]
    /\ UNCHANGED <<nodes, lastCall, log, returned, layout, layoutCall>>
\* EntityRotationPolicy::getPropertyKey, called for the entity
getPropertyKey ==
    QueryReturns("getPropertyKey", <<>>, entity, <<EntityRotationPolicy_getPropertyKey(entity)>>)
\* EntityRotationPolicy::getRotation, called for the entity
getRotation ==
    QueryReturns("getRotation", <<>>, entity, EntityRotationPolicy_getRotation(entity))
\* EntityRotationPolicy::applyRotation, called for the entity when the caller
\* is between two calls; it leaves one of the entities the call may leave.
applyRotation(transformation) ==
    /\ queryCall.op = "none"
    /\ \E e \in EntityRotationPolicy_applyRotation(entity, transformation) :
          QueryReturns("applyRotation", <<transformation>>, e, <<>>)

(***************************************************************************)
(* The calls the model makes                                               *)
(***************************************************************************)
NoCall == Call("none", NoNode, NoNode, "ok", NoArgs)
\* The caller is between two calls.
\* A call to a node starts when the caller is between two calls; it leaves
\* the layout alone.
Idle == lastCall = NoCall /\ UNCHANGED <<layout, layoutCall, entity, queryCall>>
\* The caller has seen what the call returned and goes on.
Return ==
    /\ lastCall # NoCall \/ layoutCall.op # "none" \/ queryCall.op # "none"
    /\ lastCall' = NoCall
    /\ log' = <<>>
    /\ returned' = <<>>
    /\ layoutCall' = [op |-> "none", args |-> <<>>, result |-> <<>>]
    /\ queryCall' = [op |-> "none", args |-> <<>>, result |-> <<>>]
    /\ UNCHANGED <<nodes, layout, entity>>

TextureName == "tex"
UnitCube == MkBox([a \in Axes |-> -1], [a \in Axes |-> 1])
\* The box between the unit cube's x+ face and the world's end.
FarBox == MkBox(<<1, -1, -1>>, <<WorldHalf, 1, 1>>)
InputBoxes == {UnitCube, FarBox}
DropLast(s) == SubSeq(s, 1, Len(s) - 1)
\* Face lists: the faces of a box; a box open on one side; a box with a second,
\* looser x- face; two faces that face away from each other (empty); a box
\* that reaches out of the world.
InputFaceLists ==
    {BoxFaces(box, TextureName) : box \in InputBoxes}
    \cup {DropLast(BoxFaces(UnitCube, TextureName))}
    \cup {BoxFaces(UnitCube, TextureName) \o <<MkFace(1, "lo", -WorldHalf, TextureName)>>}
    \cup {[BoxFaces(UnitCube, TextureName) EXCEPT ![1].dist = 1, ![2].dist = -1]}
    \cup {[BoxFaces(UnitCube, TextureName) EXCEPT ![2].dist = WorldHalf + 1]}
\* Brushes handed to a node: built for no node, or copies of a node's brush,
\* and one with another texture on its x+ face.
InputBrushes ==
    {MkBrush(owner, BoxFaces(box, TextureName), box) :
        owner \in {NoNode} \cup NodeIds, box \in InputBoxes}
    \cup {MkBrush(NoNode, [BoxFaces(UnitCube, TextureName) EXCEPT ![2].tex = DefaultTextureName],
                   UnitCube)}
\* From the unit cube's x+ face to the world's end, and farther than the
\* world is wide.
ToWorldEnd == <<WorldHalf - 1, 0, 0>>
OutOfWorld == <<2 * WorldHalf, 0, 0>>
Outside == [a \in Axes |-> WorldHalf + 1]
SideVertices(b, a, s) ==
    {p \in Brush_vertices(b) : p[a] = IF s = "lo" THEN b.bounds.lo[a] ELSE b.bounds.hi[a]}
\* The solids of the model are boxes, so the moves made are those that lead
\* from a box to a box and those the brush refuses: the x+ side along x; one
\* corner out of the world; points that are no vertices of the brush, inside
\* of the world and outside of it.  Each is a selection and a delta.
VertexMoves(b) ==
    {<<SideVertices(b, 1, "hi"), ToWorldEnd>>, <<{b.bounds.hi}, OutOfWorld>>,
     <<{ZeroVec}, ToWorldEnd>>, <<{Outside}, ToWorldEnd>>}
SideEdges(b) == {e \in Brush_edges(b) : e \subseteq SideVertices(b, 1, "hi")}
EdgeMoves(b) ==
    {<<SideEdges(b), ToWorldEnd>>, <<{{ZeroVec, <<1, 0, 0>>}}, ToWorldEnd>>,
     <<{{b.bounds.hi, Outside}}, ToWorldEnd>>}
FaceMoves(b) ==
    {<<{SideVertices(b, 1, "hi")}, ToWorldEnd>>, <<{{ZeroVec}}, ToWorldEnd>>,
     <<{{Outside}}, ToWorldEnd>>}
\* Likewise the vertices added and removed are those the brush refuses: a
\* point of the brush and a point outside of the world; a whole side, which
\* leaves no solid, and a point that is no vertex.
AddPositions(b) == {b.bounds.lo, Outside}
RemoveSelections(b) == {SideVertices(b, 1, "hi"), {Outside}}
Positions == {ZeroVec, worldBounds.hi, Outside}
GridSizes == {2}
Transformations == {Translation(ToWorldEnd)}
\* The slots the calls below construct nodes in, and the slot of the node the
\* calls are made on; the node of the other slot is the one a call is told
\* about.
Slots == {1, 2}
Receivers == {1}
SubtrahendLists == {<<m>> : m \in Slots} \cup {<<m, k>> : m, k \in Slots}
\* What a face is looked up by: a texture name, a normal, a boundary plane,
\* the loop of the x+ side, and two loops of which the second is that one.
FaceKeys(b) ==
    {<<"textureName", TextureName>>, <<"textureName", DefaultTextureName>>,
     <<"normal", <<1, 0, 0>>>>,
     <<"boundary", [normal |-> <<1, 0, 0>>, distance |-> 1]>>,
     <<"vertices", SideVertices(b, 1, "hi")>>,
     <<"candidates", <<{Outside}, SideVertices(b, 1, "hi")>>>>}
\* Loops of three, four and five points: the x+ side without one of its
\* vertices, the x+ side, and the x+ side with a point that is none of its
\* vertices.
Polygons(b) ==
    {SideVertices(b, 1, "hi") \ {b.bounds.hi}, SideVertices(b, 1, "hi"),
     SideVertices(b, 1, "hi") \cup {Outside}}
\* Rays from beyond the world's end on the x axis, towards the world and away
\* from it.
Rays == {Ray(<<WorldHalf + 1, 0, 0>>, 1, -1), Ray(<<WorldHalf + 1, 0, 0>>, 1, 1)}
\* The nodes a node is asked about: the world, a layer, a group and an entity
\* as large as the unit cube, and the brush nodes of the slots.
VisitedNodes ==
    {VisitedNode("world", NoBounds, NoNode), VisitedNode("layer", NoBounds, NoNode),
     VisitedNode("group", UnitCube, NoNode), VisitedNode("entity", UnitCube, NoNode)}
    \cup {VisitedNode("brush", NoBounds, m) : m \in Slots}

Init ==
    /\ nodes = [n \in NodeIds |-> NoNodeRec]
    /\ lastCall = NoCall
    /\ log = <<>>
    /\ returned = <<>>
    /\ layout = CellLayout_new(0)
    /\ layoutCall = [op |-> "none", args |-> <<>>, result |-> <<>>]
    /\ entity = Entity_new
    /\ queryCall = [op |-> "none", args |-> <<>>, result |-> <<>>]

Next ==
    \/ \E n \in Slots : \E faces \in InputFaceLists : Idle /\ BrushNode_fromFaces(n, faces)
    \/ \E n \in Slots : \E brush \in InputBrushes : Idle /\ BrushNode_fromBrush(n, brush)
    \/ \E n \in Slots : Idle /\ BrushNode_destroy(n)
    \/ \E n \in Slots \ Receivers : \E m \in Receivers : Idle /\ doClone(n, m)
    \/ \E n \in Receivers : \E brush \in InputBrushes : Idle /\ setBrush(n, brush)
    \/ \E n \in Receivers : \E key \in FaceKeys(nodes[n].brush) :
          Idle /\ findFace(n, key[1], key[2])
    \/ \E n \in Receivers : Idle /\ faceCount(n)
    \/ \E n \in Receivers : Idle /\ BrushNode_faces(n)
    \/ \E n \in Receivers : \E faces \in InputFaceLists : Idle /\ setFaces(n, faces)
    \/ \E n \in Receivers : Idle /\ closed(n)
    \/ \E n \in Receivers : Idle /\ fullySpecified(n)
    \/ \E n \in Receivers : \E brush \in Slots : Idle /\ cloneFaceAttributesFrom(n, brush)
    \/ \E n \in Receivers : \E brushes \in {<<1, 2>>, <<2, 1>>} :
          Idle /\ cloneFaceAttributesFromBrushes(n, brushes)
    \/ \E n \in Receivers : \E brush \in Slots :
          Idle /\ cloneInvertedFaceAttributesFrom(n, brush)
    \/ \E n \in Receivers : \E brushes \in {<<1, 2>>, <<2, 1>>} :
          Idle /\ cloneInvertedFaceAttributesFromBrushes(n, brushes)
    \/ \E n \in Receivers : Idle /\ vertexCount(n)
    \/ \E n \in Receivers : Idle /\ BrushNode_vertices(n)
    \/ \E n \in Receivers : Idle /\ vertexPositions(n)
    \/ \E n \in Receivers : \E p \in {nodes[n].brush.bounds.hi, Outside} :
          Idle /\ hasVertex(n, p)
    \/ \E n \in Receivers : Idle /\ findClosestVertexPosition(n, Outside)
    \/ \E n \in Receivers : \E move \in EdgeMoves(nodes[n].brush) : \E e \in move[1] :
          Idle /\ hasEdge(n, e)
    \/ \E n \in Receivers : \E polygon \in Polygons(nodes[n].brush) :
          Idle /\ hasFace(n, polygon)
    \/ \E n \in Receivers : Idle /\ edgeCount(n)
    \/ \E n \in Receivers : Idle /\ BrushNode_edges(n)
    \/ \E n \in Receivers : \E p \in Positions : Idle /\ containsPoint(n, p)
    \/ \E n \in Receivers : Idle /\ incidentFaces(n, nodes[n].brush.bounds.hi)
    \/ \E n \in Receivers : \E move \in VertexMoves(nodes[n].brush) :
          Idle /\ canMoveVertices(n, move[1], move[2])
    \/ \E n \in Receivers : \E move \in VertexMoves(nodes[n].brush) :
          \E uvLock \in BOOLEAN : Idle /\ moveVertices(n, move[1], move[2], uvLock)
    \/ \E n \in Receivers : \E p \in AddPositions(nodes[n].brush) : Idle /\ canAddVertex(n, p)
    \/ \E n \in Receivers : \E p \in AddPositions(nodes[n].brush) : Idle /\ addVertex(n, p)
    \/ \E n \in Receivers : \E sel \in RemoveSelections(nodes[n].brush) :
          Idle /\ canRemoveVertices(n, sel)
    \/ \E n \in Receivers : \E sel \in RemoveSelections(nodes[n].brush) :
          Idle /\ removeVertices(n, sel)
    \/ \E n \in Receivers : \E g \in GridSizes : Idle /\ canSnapVertices(n, g)
    \/ \E n \in Receivers : \E g \in GridSizes : \E uvLock \in BOOLEAN :
          Idle /\ snapVertices(n, g, uvLock)
    \/ \E n \in Receivers : \E move \in EdgeMoves(nodes[n].brush) :
          Idle /\ canMoveEdges(n, move[1], move[2])
    \/ \E n \in Receivers : \E move \in EdgeMoves(nodes[n].brush) :
          \E uvLock \in BOOLEAN : Idle /\ moveEdges(n, move[1], move[2], uvLock)
    \/ \E n \in Receivers : \E move \in FaceMoves(nodes[n].brush) :
          Idle /\ canMoveFaces(n, move[1], move[2])
    \/ \E n \in Receivers : \E move \in FaceMoves(nodes[n].brush) :
          \E uvLock \in BOOLEAN : Idle /\ moveFaces(n, move[1], move[2], uvLock)
    \/ \E n \in Receivers : \E subs \in SubtrahendLists : Idle /\ subtract(n, subs)
    \/ \E n \in Receivers : \E m \in Slots : Idle /\ subtractOne(n, m)
    \/ \E n \in Receivers : \E m \in Slots : Idle /\ intersect(n, m)
    \/ \E n \in Receivers : Idle /\ findIntegerPlanePoints(n)
    \/ \E n \in Receivers : \E t \in Transformations : Idle /\ canTransform(n, t)
    \/ \E n \in Receivers : \E ray \in Rays : Idle /\ pick(n, ray)
    \/ \E n \in Receivers : \E t \in Transformations : \E lock \in BOOLEAN :
          Idle /\ doTransform(n, t, lock)
    \/ \E n \in Receivers : \E node \in VisitedNodes : Idle /\ doContains(n, node)
    \/ \E n \in Receivers : \E node \in VisitedNodes : Idle /\ doIntersects(n, node)
    \/ \E n \in Receivers : Idle /\ BrushNode_invalidateVertexCache(n)
    \/ \E n \in Receivers : Idle /\ validateVertexCache(n)
    \/ Return

Spec == Init /\ [][Next]_vars

\* The items given to addItem: a small one with a title, a tall one without.
Items ==
    {[item |-> "a", itemWidth |-> 50, itemHeight |-> 50, titleWidth |-> 10, titleHeight |-> 20],
     [item |-> "b", itemWidth |-> 100, itemHeight |-> 200, titleWidth |-> 10, titleHeight |-> 0]}
Margins == {0, 4}
\* The caller gives every group of a layout a title of its own: the title of
\* the group it adds to a layout of k groups.
GroupItems == <<"g", "h", "i", "j">>

LayoutInit ==
    /\ nodes = [n \in NodeIds |-> NoNodeRec]
    /\ lastCall = NoCall
    /\ log = <<>>
    /\ returned = <<>>
    /\ \E maxCellsPerRow \in {0, 1, 2, 3} : layout = CellLayout_new(maxCellsPerRow)
    /\ layoutCall = [op |-> "none", args |-> <<>>, result |-> <<>>]
    /\ entity = Entity_new
    /\ queryCall = [op |-> "none", args |-> <<>>, result |-> <<>>]

\* Each setter is given a value that is not the one of the constructor, so
\* that its first call changes the parameter and a second call gives it the
\* stored value; setRowMargin, setCellHeight and setWidth are given the
\* value of the constructor as well.
LayoutNext ==
    \/ \E v \in {2} : Setter("setTitleMargin", <<"titleMargin">>, <<v>>)
    \/ \E v \in {4} : Setter("setCellMargin", <<"cellMargin">>, <<v>>)
    \/ \E v \in Margins : Setter("setRowMargin", <<"rowMargin">>, <<v>>)
    \/ \E v \in {6} : Setter("setGroupMargin", <<"groupMargin">>, <<v>>)
    \/ \E v \in {2} : Setter("setOuterMargin", <<"outerMargin">>, <<v>>)
    \/ \E v \in {<<50, 100>>} :
          Setter("setCellWidth", <<"minCellWidth", "maxCellWidth">>, v)
    \/ \E v \in {<<100, 100>>, <<100, 200>>} :
          Setter("setCellHeight", <<"minCellHeight", "maxCellHeight">>, v)
    \/ \E v \in {2 * ScaleOne} : Setter("setMaxUpScale", <<"maxUpScale">>, <<v>>)
    \/ \E v \in {0, 1, 250} : Setter("setWidth", <<"width">>, <<v>>)
    \/ invalidate
    \/ clear
    \/ height
    \/ groups
    \/ \E x \in {50, 150} : \E y \in {50, 215} : cellAt(x, y)
    \/ \E y \in {100, 150} : \E offset \in {-1, 0, 1} : rowPosition(y, offset)
    \/ \E groupItem \in {GroupItems[Len(layout.groups) + 1]} : \E titleHeight \in {10} :
          addGroup(groupItem, titleHeight)
    \/ \E item \in Items : addItem(item)
    \/ Return

LayoutSpec == LayoutInit /\ [][LayoutNext]_vars

\* The entities the policy is called for: with or without a classname, of a
\* light or of something else, with or without each of the properties the
\* policy looks at, point and brush entities, centered or not, of both pitch
\* types.
Entities ==
    LET optional(key, values) ==
            {[k \in {} |-> ""]} \cup {[k \in {key} |-> v] : v \in values}
        merged(f, g) ==
            [k \in DOMAIN f \cup DOMAIN g |-> IF k \in DOMAIN f THEN f[k] ELSE g[k]]
    IN {[properties |-> merged(c, merged(a, merged(as, merged(m, t)))),
         pointEntity |-> p, definitionCenter |-> d, pitchType |-> pt] :
           c \in optional("classname", {"light", "light_flame", "monster"}),
           a \in optional("angle", {"", "90", "-1", "-2"}),
           as \in optional("angles", {"0 90 0"}),
           m \in optional("mangle", {"0 0 0"}),
           t \in optional("target", {"t1"}),
           p \in BOOLEAN,
           d \in {<<0, 0>>, <<0, 8>>},
           pt \in {"Normal", "MdlInverted"}}
\* The rotations applied: the identity and the quarter turn about z.
Turns == {<<<<1, 0, 0>>, <<0, 1, 0>>, <<0, 0, 1>>>>, <<<<0, -1, 0>>, <<1, 0, 0>>, <<0, 0, 1>>>>}
\* The transformations applied that are no rotations: the one that maps
\* every point to the origin and the projection onto the plane z = 0.
Squashes == {<<<<0, 0, 0>>, <<0, 0, 0>>, <<0, 0, 0>>>>, <<<<1, 0, 0>>, <<0, 1, 0>>, <<0, 0, 0>>>>}

RotationInit ==
    /\ nodes = [n \in NodeIds |-> NoNodeRec]
    /\ lastCall = NoCall
    /\ log = <<>>
    /\ returned = <<>>
    /\ layout = CellLayout_new(0)
    /\ layoutCall = [op |-> "none", args |-> <<>>, result |-> <<>>]
    /\ entity \in Entities
    /\ queryCall = [op |-> "none", args |-> <<>>, result |-> <<>>]

RotationNext ==
    \/ getPropertyKey
    \/ getRotation
    \/ \E transformation \in Turns \cup Squashes : applyRotation(transformation)
    \/ Return

RotationSpec == RotationInit /\ [][RotationNext]_vars

(***************************************************************************)
(* The queries of a brush node: Model/BrushNode.cpp                        *)
(*                                                                         *)
(* entity(), doPick() and the two tag queries read what the node model     *)
(* above does not hold: the chain of ancestors, the ray and the tag masks  *)
(* of the faces.  Each query is an operator of exactly what it reads, and  *)
(* its action draws that from the sets below.                              *)
(***************************************************************************)
\* The longest chain of ancestors, the most faces and the tag bits drawn.
MaxChain == 3
MaxFaces == 3
TagBits == 2
\* The kinds of node a visitor tells apart.
NodeKinds == {"world", "layer", "group", "entity", "brush"}
\* The same visitor passing over entity nodes.
FindBrushOwner_doVisit_worldOnly(visitor, kind, i) ==
    IF kind = "world"
    THEN [hasResult |-> TRUE, result |-> i, cancelled |-> TRUE]
    ELSE visitor
\* FindBrushOwner::doVisit on the ancestor at position i of the chain: a
\* world or entity node is the result and cancels the visit, any other kind
\* leaves the visitor as it is.
FindBrushOwner_doVisit(visitor, kind, i) ==
    IF kind \in {"world", "entity"}
    THEN [hasResult |-> TRUE, result |-> i, cancelled |-> TRUE]
    ELSE visitor
\* Node::acceptAndEscalate from the ancestor at position i: the visitor
\* visits it and, unless cancelled, the parent goes on.
RECURSIVE acceptAndEscalate(_, _, _)
acceptAndEscalate(chain, i, visitor) ==
    LET escalate(visited) ==
            IF ~visited.cancelled /\ i < Len(chain)
            THEN acceptAndEscalate(chain, i + 1, visited)
            ELSE visited
    IN  escalate(FindBrushOwner_doVisit(visitor, chain[i], i))
\* BrushNode::entity of a node whose ancestors are chain, the parent first
\* and the empty chain for a node without parent: the position of the node
\* returned, 0 for null.
BrushNode_entity(chain) ==
    IF chain = <<>>
    THEN 0
    ELSE LET of(visitor) == IF ~visitor.hasResult THEN 0 ELSE visitor.result
         IN  of(acceptAndEscalate(chain, 1, [hasResult |-> FALSE, result |-> 0, cancelled |-> FALSE]))

\* The bitwise and of two tag masks.
RECURSIVE BitAnd(_, _)
BitAnd(a, b) ==
    IF a = 0 \/ b = 0
    THEN 0
    ELSE (a % 2) * (b % 2) + 2 * BitAnd(a \div 2, b \div 2)
\* TagType::AnyType, all bits set, at the width of the masks drawn.
AnyType == 2 ^ TagBits - 1
\* The same query asking each face for a tag of the mask of its own.
BrushNode_allFacesHaveAnyTagInMask_each(faceTags, tagMask) ==
    tagMask # 0 /\ \A i \in DOMAIN faceTags : BitAnd(faceTags[i], tagMask) # 0
\* BrushNode::allFacesHaveAnyTagInMask: faceTags[i] is tagMask() of face i.
BrushNode_allFacesHaveAnyTagInMask(faceTags, tagMask) ==
    LET RECURSIVE sharedFaceTags(_)
        sharedFaceTags(n) ==
            IF n = 0 THEN AnyType ELSE BitAnd(sharedFaceTags(n - 1), faceTags[n])
    IN  BitAnd(sharedFaceTags(Len(faceTags)), tagMask) # 0
\* BrushNode::anyFacesHaveAnyTagInMask, with Taggable::hasTag.
BrushNode_anyFacesHaveAnyTagInMask(faceTags, tagMask) ==
    LET hasTag(face) == BitAnd(faceTags[face], tagMask) # 0
    IN  \E face \in DOMAIN faceTags : hasTag(face)

\* The sequences over S of at most n elements.
SeqsUpTo(S, n) == UNION {[1..k -> S] : k \in 0..n}
\* BrushNode::entity, called on a node with the given ancestors
entityOf(chain) ==
    QueryReturns("entity", <<chain>>, entity, <<BrushNode_entity(chain)>>)
\* BrushNode::doPick, called with a ray of the given intersections
doPick(bboxDistance, distances) ==
    QueryReturns("doPick", <<bboxDistance, distances>>, entity,
                 <<BrushNode_doPick(bboxDistance, distances)>>)
\* BrushNode::allFacesHaveAnyTagInMask, called on a brush of the given faces
allFacesHaveAnyTagInMask(faceTags, tagMask) ==
    QueryReturns("allFacesHaveAnyTagInMask", <<faceTags, tagMask>>, entity,
                 <<BrushNode_allFacesHaveAnyTagInMask(faceTags, tagMask)>>)
\* BrushNode::anyFacesHaveAnyTagInMask, called on a brush of the given faces
anyFacesHaveAnyTagInMask(faceTags, tagMask) ==
    QueryReturns("anyFacesHaveAnyTagInMask", <<faceTags, tagMask>>, entity,
                 <<BrushNode_anyFacesHaveAnyTagInMask(faceTags, tagMask)>>)

QueryNext ==
    \/ \E chain \in SeqsUpTo(NodeKinds, MaxChain) : entityOf(chain)
    \/ \E bboxDistance \in {nan, <<1>>} :
           \E distances \in SeqsUpTo({nan, <<1>>, <<2>>}, MaxFaces) :
               doPick(bboxDistance, distances)
    \/ \E faceTags \in SeqsUpTo(0..AnyType, MaxFaces) : \E tagMask \in 0..AnyType :
           allFacesHaveAnyTagInMask(faceTags, tagMask)
    \/ \E faceTags \in SeqsUpTo(0..AnyType, MaxFaces) : \E tagMask \in 0..AnyType :
           anyFacesHaveAnyTagInMask(faceTags, tagMask)
    \/ Return

QuerySpec == Init /\ [][QueryNext]_vars

(***************************************************************************)
(* Properties                                                              *)
(***************************************************************************)
Count(s, e) == Cardinality({i \in DOMAIN s : s[i] = e})
IndexOf(s, e) == MinOf({i \in DOMAIN s : s[i] = e})
MutatingOps ==
    {"setBrush", "setFaces", "moveVertices", "addVertex", "removeVertices", "snapVertices",
     "moveEdges", "moveFaces", "intersect", "findIntegerPlanePoints", "transform"}
ChangeNotifications ==
    {"nodeWillChange", "nodeDidChange", "physicalBoundsWillChange", "physicalBoundsDidChange"}
\* What a mutating call does to the node between the notifications.
MutationEvents == {"m_brush", "throw", "invalidateIssues", "invalidateVertexCache"}
\* Each notification is in l once, and the call into the brush, what it throws
\* and what follows it lie after both "will change" and before both "did
\* change" notifications.
GuardsHeld(l) ==
    /\ \A e \in ChangeNotifications : Count(l, e) = 1
    /\ Count(l, "m_brush") = 1
    /\ \A i \in DOMAIN l :
          l[i] \in MutationEvents =>
              /\ IndexOf(l, "nodeWillChange") < i
              /\ IndexOf(l, "physicalBoundsWillChange") < i
              /\ i < IndexOf(l, "physicalBoundsDidChange")
              /\ i < IndexOf(l, "nodeDidChange")
\* C1: every call of setBrush, setFaces, moveVertices, addVertex,
\* removeVertices, snapVertices, moveEdges, moveFaces, intersect,
\* findIntegerPlanePoints and transform fires the node-change and the
\* bounds-change notification once each, "will change" before the brush is
\* touched and "did change" after it, also when the brush operation throws.
C1_GuardsAroundEveryMutation ==
    [][lastCall'.op \in MutatingOps => GuardsHeld(log')]_vars
\* A mutating call whose brush operation threw has returned.
C1_Witness_MutationThrew ==
    /\ lastCall.op \in MutatingOps
    /\ lastCall.outcome = "failed"
    /\ Count(log, "throw") = 1

QueryOps ==
    {"findFace", "faceCount", "faces", "closed", "fullySpecified", "vertexCount", "vertices",
     "vertexPositions", "hasVertex", "findClosestVertexPosition", "hasEdge", "hasFace",
     "edgeCount", "edges", "containsPoint", "incidentFaces", "canMoveVertices", "canAddVertex",
     "canRemoveVertices", "canSnapVertices", "canMoveEdges", "canMoveFaces", "canTransform",
     "pick", "contains", "intersects"}
\* C3: a read-only operation of the node changes no node (brush and render
\* cache stay as they are) and fires no change notification.
C3_QueriesChangeNothing ==
    [][lastCall'.op \in QueryOps
          => /\ nodes' = nodes
             /\ \A i \in DOMAIN log' :
                   log'[i] \notin ChangeNotifications \cup MutationEvents]_vars
\* canSnapVertices has answered "true" about a node whose render cache is valid.
C3_Witness_QueryOnValidCache ==
    /\ lastCall.op = "canSnapVertices"
    /\ lastCall.outcome = "true"
    /\ nodes[lastCall.node].vertexCacheValid

\* A vertex of the selection leaves the world bounds when moved by delta.
SomeMovedOutside(sel, delta) == \E v \in sel : ~InBox(VAdd(v, delta), worldBounds)
\* C4: canMoveVertices answers false when the move takes a selected vertex out
\* of the world bounds, and neither the question nor an attempt to make that
\* move changes the brush.
C4_NoMoveOutOfWorld ==
    [][(lastCall'.op \in {"canMoveVertices", "moveVertices"}
            /\ SomeMovedOutside(lastCall'.args[1], lastCall'.args[2]))
          => /\ lastCall'.outcome \in {"false", "failed"}
             /\ nodes'[lastCall'.node].brush = nodes[lastCall'.node].brush]_vars
\* canMoveVertices has answered false about vertices of the brush that the
\* delta takes out of the world.
C4_Witness_VerticesLeaveWorld ==
    /\ lastCall.op = "canMoveVertices"
    /\ lastCall.args[1] # {}
    /\ lastCall.args[1] \subseteq Brush_vertices(nodes[lastCall.node].brush)
    /\ SomeMovedOutside(lastCall.args[1], lastCall.args[2])
    /\ lastCall.outcome = "false"

\* C6: the brush of every node, and of every node a call hands back, refers
\* to that node; a call changes no node but the one it is made on, so a
\* clone and its original do not change with each other.
C6_OneBrushPerNode ==
    /\ [](/\ \A n \in NodeIds : nodes[n].exists => nodes[n].brush.node = n
          /\ lastCall.op = "subtract"
                => \A i \in DOMAIN returned : returned[i].brush.node = FreshNode(i))
    /\ [][\A k \in NodeIds :
             (nodes[k].exists /\ nodes'[k] # nodes[k]) => k = lastCall'.node]_vars
\* A node has been cloned: the clone holds a brush like the original's that
\* refers to the clone.
C6_Witness_Cloned ==
    /\ lastCall.op = "clone"
    /\ HasGeometry(nodes[lastCall.node].brush)
    /\ nodes[lastCall.other].brush.faces = nodes[lastCall.node].brush.faces
    /\ nodes[lastCall.other].brush.node = lastCall.other

\* The brushes the brush subtraction yields for the call c, in the state the
\* call was made in.
Fragments(c) ==
    Brush_subtract(nodes[c.node].brush, worldBounds, DefaultTextureName,
                   [i \in DOMAIN c.args |-> nodes[c.args[i]].brush])
\* C7: subtract hands back one node per fragment of the brush subtraction, in
\* the order of the fragments, each made by the factory from the fragment; it
\* changes no node and fires no change notification.
C7_SubtractReturnsFragmentNodes ==
    [][lastCall'.op = "subtract"
          => /\ nodes' = nodes
             /\ Len(returned') = Len(Fragments(lastCall'))
             /\ \A i \in DOMAIN returned' :
                   /\ returned'[i].exists
                   /\ returned'[i].brush = Brush_setNode(Fragments(lastCall')[i], FreshNode(i))
             /\ Count(log', "createBrush") = Len(Fragments(lastCall'))
             /\ \A i \in DOMAIN log' : log'[i] \notin ChangeNotifications]_vars
\* subtract has handed back several nodes with different brushes.
C7_Witness_SeveralFragments ==
    /\ lastCall.op = "subtract"
    /\ Len(returned) >= 2
    /\ returned[1].brush.bounds # returned[2].brush.bounds

\* The cells of the world's grid, each named by its lowest corner.
Cells == [Axes -> (-WorldHalf)..(WorldHalf - 1)]
CellIn(c, box) == \A a \in Axes : box.lo[a] <= c[a] /\ c[a] + 1 <= box.hi[a]
\* The cells of the minuend of call c that no subtrahend covers.
Difference(c) ==
    {x \in Cells : /\ CellIn(x, nodes[c.node].brush.bounds)
                   /\ \A i \in DOMAIN c.args : ~CellIn(x, nodes[c.args[i]].brush.bounds)}
RECURSIVE TotalVolume(_)
TotalVolume(ns) ==
    IF ns = <<>> THEN 0 ELSE Volume(Head(ns).brush.bounds) + TotalVolume(Tail(ns))
TwoCube == MkBox([a \in Axes |-> -2], [a \in Axes |-> 2])
\* C8: the brushes subtract hands back are solids that cover exactly the part
\* of the minuend no subtrahend covers, without overlap; a 2x2x2 cube minus
\* the unit cube, both centered at the origin, leaves a volume of 7 unit
\* cubes.
C8_SubtractIsTheDifference ==
    lastCall.op = "subtract"
        => /\ \A i \in DOMAIN returned :
                 /\ HasGeometry(returned[i].brush)
                 /\ NonDegenerate(returned[i].brush.bounds)
                 /\ Rebuild(worldBounds, returned[i].brush.faces).bounds
                        = returned[i].brush.bounds
           /\ \A x \in Cells :
                 Cardinality({i \in DOMAIN returned : CellIn(x, returned[i].brush.bounds)})
                     = IF x \in Difference(lastCall) THEN 1 ELSE 0
           /\ TotalVolume(returned) = Cardinality(Difference(lastCall))
           /\ (/\ nodes[lastCall.node].brush.bounds = TwoCube
               /\ \A i \in DOMAIN lastCall.args :
                     nodes[lastCall.args[i]].brush.bounds = UnitCube)
                 => TotalVolume(returned) = 7 * Volume(UnitCube)
\* The unit cube has been subtracted from the 2x2x2 cube.
C8_Witness_CubeMinusUnitCube ==
    /\ lastCall.op = "subtract"
    /\ nodes[lastCall.node].brush.bounds = TwoCube
    /\ Len(lastCall.args) = 1
    /\ nodes[lastCall.args[1]].brush.bounds = UnitCube
    /\ Len(returned) = 6
    /\ TotalVolume(returned) = 56

\* C9: intersect leaves the other node as it is; the receiver's brush becomes
\* the intersection of the two brushes and refers to the receiver, and when
\* the brushes have no solid in common the call fails and the receiver's brush
\* is empty.
C9_IntersectInPlace ==
    [][lastCall'.op = "intersect"
          => LET n == lastCall'.node
                 m == lastCall'.other
                 meet == BoxMeet(nodes[n].brush.bounds, nodes[m].brush.bounds)
             IN /\ m # n => nodes'[m] = nodes[m]
                /\ IF /\ HasGeometry(nodes[n].brush)
                      /\ HasGeometry(nodes[m].brush)
                      /\ NonDegenerate(meet)
                   THEN /\ lastCall'.outcome = "ok"
                        /\ nodes'[n].brush.bounds = meet
                        /\ nodes'[n].brush.node = n
                   ELSE /\ lastCall'.outcome = "failed"
                        /\ nodes'[n].brush = EmptyBrush(n)]_vars
\* A brush has been intersected with a brush it has no solid in common with.
C9_Witness_DisjointIntersect ==
    /\ lastCall.op = "intersect"
    /\ lastCall.outcome = "failed"
    /\ HasGeometry(nodes[lastCall.other].brush)
    /\ nodes[lastCall.node].brush = EmptyBrush(lastCall.node)

\* The half spaces of a face list have no solid in common, or one that is
\* not closed off within the world bounds.
InvalidFaces(faces) ==
    IF Bounded(faces)
    THEN \/ ~NonDegenerate(HalfSpaceIntersection(faces))
         \/ ~BoxInBox(HalfSpaceIntersection(faces), worldBounds)
    ELSE TRUE
\* A brush is empty or its mesh is the solid its six faces bound.
WellFormed(b) ==
    IF HasGeometry(b)
    THEN /\ Len(b.faces) = 6
         /\ ~InvalidFaces(b.faces)
         /\ HalfSpaceIntersection(b.faces) = b.bounds
    ELSE b.faces = <<>>
\* C10: a constructor or setFaces given faces without a solid within the
\* world bounds signals InvalidBrush, the constructor yields no node and
\* setFaces leaves no mesh, and the brush of every node is well formed.
C10_InvalidBrushSignalled ==
    /\ (lastCall.op \in {"BrushNode", "setFaces"} /\ InvalidFaces(lastCall.args[1]))
          => /\ lastCall.outcome = "InvalidBrush"
             /\ lastCall.op = "BrushNode" => ~nodes[lastCall.node].exists
             /\ lastCall.op = "setFaces" => ~HasGeometry(nodes[lastCall.node].brush)
    /\ \A n \in NodeIds : nodes[n].exists => WellFormed(nodes[n].brush)
\* A constructor has been given faces that leave a side open.
C10_Witness_OpenFaceSet ==
    /\ lastCall.op = "BrushNode"
    /\ lastCall.args[1] # <<>>
    /\ ~Bounded(lastCall.args[1])
    /\ lastCall.outcome = "InvalidBrush"

\* C11: after snapVertices has succeeded, snapping the brush again with the
\* same grid size succeeds and leaves vertices and faces as they are.
C11_SnapIsIdempotent ==
    [][(lastCall'.op = "snapVertices" /\ lastCall'.outcome = "ok")
          => LET b == nodes'[lastCall'.node].brush
                 again == Brush_snapVertices(b, worldBounds, lastCall'.args[1], FALSE)
             IN /\ again.ok
                /\ Brush_vertices(again.brush) = Brush_vertices(b)
                /\ again.brush.faces = b.faces]_vars
\* snapVertices has put a brush onto the grid.
C11_Witness_Snapped ==
    /\ lastCall.op = "snapVertices"
    /\ lastCall.outcome = "ok"
    /\ \A v \in Brush_vertices(nodes[lastCall.node].brush) :
          \A a \in Axes : v[a] % lastCall.args[1] = 0

\* The calls that invalidate the render cache of a node: the mutating
\* operations, as a side effect, and the invalidation itself.
InvalidatingOps == MutatingOps \cup {"invalidateVertexCache"}
\* C12: invalidating a cache that is invalid changes nothing: a call of
\* invalidateVertexCache or of a mutating operation on a node whose render
\* cache is invalid leaves the cache as it is, and invalidating twice is the
\* same as invalidating once.  A valid cache becomes invalid only in a
\* mutating call or in the call of the invalidation itself, never in a call
\* that reads.
C12_InvalidationIdempotent ==
    [][\A n \in NodeIds :
          (nodes[n].exists /\ nodes'[n].exists)
              => /\ invalidateVertexCache(invalidateVertexCache(nodes, n), n)
                       = invalidateVertexCache(nodes, n)
                 /\ (~nodes[n].vertexCacheValid /\ lastCall'.op \in InvalidatingOps)
                       => /\ ~nodes'[n].vertexCacheValid
                          /\ nodes'[n].cachedBounds = nodes[n].cachedBounds
                 /\ (/\ ~nodes[n].vertexCacheValid
                     /\ lastCall'.op = "invalidateVertexCache"
                     /\ lastCall'.node = n)
                       => nodes' = nodes
                 /\ (nodes[n].vertexCacheValid /\ ~nodes'[n].vertexCacheValid)
                       => /\ lastCall'.op \in InvalidatingOps
                          /\ lastCall'.op \notin QueryOps]_vars
\* invalidateVertexCache has returned on a node with a brush; the cache of
\* the node is invalid.
C12_Witness_CacheInvalidated ==
    /\ lastCall.op = "invalidateVertexCache"
    /\ HasGeometry(nodes[lastCall.node].brush)
    /\ ~nodes[lastCall.node].vertexCacheValid

\* The two notifications lie around the mutation, bounds-change inside of
\* node-change.
StrictlyNested(l) ==
    /\ Len(l) >= 5
    /\ l[1] = "nodeWillChange"
    /\ l[2] = "physicalBoundsWillChange"
    /\ l[Len(l) - 1] = "physicalBoundsDidChange"
    /\ l[Len(l)] = "nodeDidChange"
    /\ \A i \in 3..(Len(l) - 2) : l[i] \in MutationEvents
    /\ \E i \in 3..(Len(l) - 2) : l[i] = "m_brush"
\* The operations that copy face attributes from the brushes of other nodes
\* into the brush of the node.
FaceAttributeOps == {"cloneFaceAttributesFrom", "cloneInvertedFaceAttributesFrom"}
\* C29: in every operation of the node that mutates its brush the two
\* notifications are strictly nested: node-change begins, bounds-change
\* begins, the brush is mutated, bounds-change ends, node-change ends; and no
\* operation begins bounds-change before node-change or ends node-change
\* before bounds-change.
C29_NotificationsStrictlyNested ==
    /\ lastCall.op \in MutatingOps \cup FaceAttributeOps => StrictlyNested(log)
    /\ \A i, j \in DOMAIN log :
          /\ (log[i] = "physicalBoundsWillChange" /\ log[j] = "nodeWillChange") => j < i
          /\ (log[i] = "physicalBoundsDidChange" /\ log[j] = "nodeDidChange") => i < j

(***************************************************************************)
(* Properties of the cell layout                                           *)
(***************************************************************************)
\* The operations that hand out results of the layout or add to them.
ReadingOps == {"height", "groups", "cellAt", "rowPosition", "addGroup", "addItem"}

\* C13: the layout validates lazily.  When height, groups, cellAt,
\* rowPosition, addGroup or addItem returns from a layout of positive width,
\* the layout is valid and each of its groups was built with the parameters
\* and the width the layout has now; height returns the height of that layout.
C13_LazyValidation ==
    [][(layoutCall'.op \in ReadingOps /\ layout.width > 0)
          => /\ layout'.valid
             /\ \A i \in DOMAIN layout'.groups :
                   /\ layout'.groups[i].lim = Limits(layout')
                   /\ layout'.groups[i].contentBounds.width
                         = layout'.width - 2 * layout'.outerMargin
             /\ layoutCall'.op = "height" => layoutCall'.result = <<layout'.height>>]_vars
\* height has returned from a layout with a row margin whose only group is
\* the group of an item added without a group, built again by validate: it
\* has the title bounds addGroup gives it and its content lies a row margin
\* below them.
C13_Witness_Revalidated ==
    /\ layoutCall.op = "height"
    /\ layout.valid
    /\ layout.rowMargin = 4
    /\ Len(layout.groups) = 1
    /\ layout.groups[1].titleBounds.height = 0
    /\ layout.groups[1].contentBounds.y = 4
    /\ Len(AllCells(layout)) = 1

\* The members each setter sets.
SetterMembers ==
    [setTitleMargin |-> <<"titleMargin">>, setCellMargin |-> <<"cellMargin">>,
     setRowMargin |-> <<"rowMargin">>, setGroupMargin |-> <<"groupMargin">>,
     setOuterMargin |-> <<"outerMargin">>,
     setCellWidth |-> <<"minCellWidth", "maxCellWidth">>,
     setCellHeight |-> <<"minCellHeight", "maxCellHeight">>,
     setMaxUpScale |-> <<"maxUpScale">>, setWidth |-> <<"width">>]

\* C14: a setter invalidates the layout if and only if a value it is given
\* differs from the stored one, and then stores what it is given; given the
\* stored values it leaves the layout as it is, valid flag, groups and height
\* included; no setter touches groups or height.  clear empties the groups
\* and invalidates, whatever the layout.
C14_SettersInvalidateOnChange ==
    [][/\ layoutCall'.op \in DOMAIN SetterMembers
          => LET members == SetterMembers[layoutCall'.op]
                 values == layoutCall'.args
                 differs == \E i \in DOMAIN members : layout[members[i]] # values[i]
             IN /\ \A i \in DOMAIN members : layout'[members[i]] = values[i]
                /\ layout'.groups = layout.groups
                /\ layout'.height = layout.height
                /\ differs => ~layout'.valid
                /\ ~differs => layout' = layout
       /\ layoutCall'.op = "clear"
          => /\ layout'.groups = <<>>
             /\ ~layout'.valid
             /\ layout'.height = layout.height]_vars
\* setTitleMargin was given a title margin other than the one the cell of
\* the layout was built with: the layout has the new margin and is invalid,
\* and its group and cell are as they were built.
C14_Witness_NewTitleMarginInvalidates ==
    /\ layoutCall.op = "setTitleMargin"
    /\ layoutCall.args = <<2>>
    /\ layout.titleMargin = 2
    /\ ~layout.valid
    /\ Len(AllCells(layout)) = 1
    /\ layout.groups[1].lim.titleMargin = 0
    /\ layout.groups[1].rows[1].cells[1].titleMargin = 0

\* C15: with maxCellsPerRow n > 0 no row holds more than n cells and every
\* row of a group but its last holds exactly n.
C15_RowsHoldMaxCells ==
    layout.maxCellsPerRow > 0
       => \A g \in DOMAIN layout.groups : \A r \in DOMAIN layout.groups[g].rows :
             LET cells == Len(layout.groups[g].rows[r].cells)
             IN /\ cells <= layout.maxCellsPerRow
                /\ r < Len(layout.groups[g].rows) => cells = layout.maxCellsPerRow

\* C16: the assertion of LayoutGroup::addItem has held on every call, and no
\* group holds a row without cells.
C16_AssertionHoldsNoEmptyRow ==
    /\ layout.assertionsHeld
    /\ \A g \in DOMAIN layout.groups : \A r \in DOMAIN layout.groups[g].rows :
          layout.groups[g].rows[r].cells # <<>>

\* C17: every cell lies inside the row that holds it; the width of a row is
\* the sum of the widths of its cells and of the cell margins between them,
\* and its height is at least the height of each of its cells.
C17_CellsInsideTheirRow ==
    \A g \in DOMAIN layout.groups : \A r \in DOMAIN layout.groups[g].rows :
       LET row == layout.groups[g].rows[r]
           widths[i \in 0..Len(row.cells)] ==
               IF i = 0 THEN 0
               ELSE widths[i - 1] + row.cells[i].cellBounds.width
                       + (IF i > 1 THEN layout.groups[g].lim.cellMargin ELSE 0)
       IN /\ row.bounds.width = widths[Len(row.cells)]
          /\ \A i \in DOMAIN row.cells :
                LET cellBounds == row.cells[i].cellBounds
                IN /\ cellBounds.height <= row.bounds.height
                   /\ cellBounds.x >= row.bounds.x
                   /\ cellBounds.y >= row.bounds.y
                   /\ Right(cellBounds) <= Right(row.bounds)
                   /\ Bottom(cellBounds) <= Bottom(row.bounds)

\* C18: cellAt returns a cell if and only if the point lies within the bounds
\* of some cell of the layout, and the cell it returns contains the point.
C18_CellAtFindsTheCell ==
    layoutCall.op = "cellAt"
       => LET at == {k \in 1..Len(AllCells(layout)) :
                       LET gr == AllCells(layout)[k]
                       IN LayoutBounds_containsPoint(
                              layout.groups[gr[1]].rows[gr[2]].cells[gr[3]].cellBounds,
                              layoutCall.args[1], layoutCall.args[2])}
          IN /\ layoutCall.result # <<>> <=> at # {}
             /\ layoutCall.result # <<>>
                   => \E k \in at : AllCells(layout)[k] = layoutCall.result

\* C19: the height of a valid layout is twice the outer margin, plus the
\* heights of the bounds of its groups, plus the group margin for every group
\* after the first.
C19_HeightIsSumOfGroups ==
    layout.valid
       => LET heights[i \in 0..Len(layout.groups)] ==
                  IF i = 0 THEN 0
                  ELSE heights[i - 1] + LayoutGroup_bounds(layout.groups[i]).height
                          + (IF i > 1 THEN layout.groupMargin ELSE 0)
          IN layout.height = 2 * layout.outerMargin + heights[Len(layout.groups)]

\* What a layout shows: its height and the bounds of its groups, rows and
\* cells.
Geometry(L) ==
    [height |-> L.height,
     groups |-> [g \in DOMAIN L.groups |->
                    [bounds |-> LayoutGroup_bounds(L.groups[g]),
                     rows |-> [r \in DOMAIN L.groups[g].rows |->
                                 [bounds |-> L.groups[g].rows[r].bounds,
                                  cells |-> [c \in DOMAIN L.groups[g].rows[r].cells |->
                                               L.groups[g].rows[r].cells[c].cellBounds]]]]]]

\* C20: a valid layout that is invalidated and validated again with the
\* parameters it has shows the same height and the same bounds of every
\* group, row and cell.
C20_RevalidationKeepsGeometry ==
    layout.valid
       => Geometry(CellLayout_validate([layout EXCEPT !.valid = FALSE])) = Geometry(layout)

\* What a layout holds: the titles of its groups, in their order, and with
\* each the items of the group, in the order of its rows and their cells.
Content(L) ==
    [g \in DOMAIN L.groups |->
        LET rows == L.groups[g].rows
            upTo[r \in 0..Len(rows)] ==
                IF r = 0 THEN <<>>
                ELSE upTo[r - 1] \o [c \in DOMAIN rows[r].cells |-> rows[r].cells[c].item]
        IN [item |-> L.groups[g].item, items |-> upTo[Len(rows)]]]

\* C21: validation keeps what the layout holds.  When height, groups, cellAt
\* or rowPosition returns, whatever parameters were set since the layout was
\* last valid, the layout has the groups it had, with the same titles in the
\* same order, and each group holds the items it held, in the same order.
C21_ValidatePreservesContent ==
    [][layoutCall'.op \in {"height", "groups", "cellAt", "rowPosition"}
          => Content(layout') = Content(layout)]_vars
\* height has returned from a layout whose row margin was set after its two
\* groups were filled, so that validate has built them again (the content of
\* the first lies a row margin below its top): the group of an item added
\* without a group still comes first and holds that item, the titled group
\* comes second and holds the other item.
C21_Witness_BothGroupsRebuilt ==
    /\ layoutCall.op = "height"
    /\ layout.valid
    /\ layout.rowMargin = 4
    /\ Len(layout.groups) = 2
    /\ layout.groups[1].contentBounds.y = 4
    /\ Content(layout) = <<[item |-> "", items |-> <<"a">>], [item |-> "h", items |-> <<"b">>]>>

\* C22: groups and rows are stacked from top to bottom in the order they were
\* added.  In a valid layout the top of every row after the first of its
\* group is the bottom of the row before it plus the row margin, the top of
\* every group after the first is the bottom of the group before it plus the
\* group margin, and the height of the content of a group is the sum of the
\* heights of its rows plus the row margin between consecutive rows.
C22_StackedTopToBottom ==
    layout.valid
       => \A g \in DOMAIN layout.groups :
             LET group == layout.groups[g]
                 rows == group.rows
                 heights[r \in 0..Len(rows)] ==
                     IF r = 0 THEN 0
                     ELSE heights[r - 1] + rows[r].bounds.height
                             + (IF r > 1 THEN layout.rowMargin ELSE 0)
             IN /\ g > 1 => group.titleBounds.y
                               = Bottom(layout.groups[g - 1].contentBounds) + layout.groupMargin
                /\ \A r \in DOMAIN rows :
                      r > 1 => rows[r].bounds.y = Bottom(rows[r - 1].bounds) + layout.rowMargin
                /\ group.contentBounds.height = heights[Len(rows)]
\* A valid layout with a row margin holds two groups, the first of them with
\* a title and with two rows of different heights, the second of which lies
\* a row margin below the first.
C22_Witness_TwoRowsTwoGroups ==
    /\ layout.valid
    /\ layout.rowMargin = 4
    /\ Len(layout.groups) = 2
    /\ layout.groups[1].titleBounds.height = 10
    /\ Len(layout.groups[1].rows) = 2
    /\ layout.groups[1].rows[1].bounds.height = 120
    /\ layout.groups[1].rows[2].bounds.height = 100
    /\ layout.groups[1].rows[2].bounds.y = Bottom(layout.groups[1].rows[1].bounds) + 4

\* The rows of a layout, <<group, row>> of each, in the order of the layout.
AllRows(L) ==
    LET upTo[g \in 0..Len(L.groups)] ==
            IF g = 0 THEN <<>>
            ELSE upTo[g - 1] \o [r \in DOMAIN L.groups[g].rows |-> <<g, r>>]
    IN upTo[Len(L.groups)]

\* C23: rowPosition(y, offset) returns y when offset is 0 or when no group
\* extends down to y + rowMargin.  Otherwise the row at y is the first row,
\* from the first such group on, that ends below y; rowPosition returns the
\* top of the row that lies offset rows after it in the order of the layout,
\* whatever groups the rows are in, and y when there is no such row.
C23_RowPositionCountsRows ==
    layoutCall.op = "rowPosition"
       => LET y == layoutCall.args[1]
              offset == layoutCall.args[2]
              rows == AllRows(layout)
              reached == {g \in DOMAIN layout.groups :
                             y + layout.rowMargin
                                <= Bottom(LayoutGroup_bounds(layout.groups[g]))}
              from == {k \in DOMAIN rows :
                          /\ \E g \in reached : g <= rows[k][1]
                          /\ y < Bottom(layout.groups[rows[k][1]].rows[rows[k][2]].bounds)}
              at == IF from = {} THEN Len(rows) + 1
                    ELSE CHOOSE k \in from : \A j \in from : k <= j
              to == at + offset
          IN layoutCall.result
                = <<IF offset = 0 \/ reached = {} \/ to \notin DOMAIN rows THEN y
                    ELSE layout.groups[rows[to][1]].rows[rows[to][2]].bounds.y>>
\* rowPosition was asked for the row after the row at y, which is the last
\* row of the first group, and has returned the top of the first row of the
\* second group.
C23_Witness_IntoTheNextGroup ==
    /\ layoutCall.op = "rowPosition"
    /\ layoutCall.args[2] = 1
    /\ Len(layout.groups) = 2
    /\ layout.groups[1].rows # <<>>
    /\ layoutCall.args[1] < Bottom(layout.groups[1].contentBounds)
    /\ layoutCall.args[1] >= layout.groups[1].rows[Len(layout.groups[1].rows)].bounds.y
    /\ layout.groups[2].rows # <<>>
    /\ layoutCall.result = <<layout.groups[2].rows[1].bounds.y>>

(***************************************************************************)
(* Properties of the rotation policy                                       *)
(***************************************************************************)
\* C24: rotationInfo is a decision table.  An entity without classname has
\* type None.  A light with mangle has Mangle on mangle; a light without
\* mangle and without target has the Euler variant of its pitch type on
\* angles if it has angles, else Angle on angle; a light with target and
\* without mangle has None.  Any other entity has the Euler variant on angles
\* if it has angles, else on mangle if it has mangle, else AngleUpDown on
\* angle if it has angle or is a point entity, else None.  The key is empty
\* exactly when the type is None, and getPropertyKey returns the key.
C24_RotationInfoTable ==
    LET info == rotationInfo(entity)
        has(key) == key \in DOMAIN entity.properties
        light == has("classname") /\ SubSeq(entity.properties["classname"], 1, 5) = "light"
        euler == IF entity.pitchType = "MdlInverted" THEN "Euler" ELSE "Euler_PositivePitchDown"
        is(type, key) == info.type = type /\ info.propertyKey = key
    IN /\ ~has("classname") => info.type = "None"
       /\ light /\ has("mangle") => is("Mangle", "mangle")
       /\ light /\ ~has("mangle") /\ ~has("target") /\ has("angles") => is(euler, "angles")
       /\ light /\ ~has("mangle") /\ ~has("target") /\ ~has("angles") => is("Angle", "angle")
       /\ light /\ ~has("mangle") /\ has("target") => info.type = "None"
       /\ has("classname") /\ ~light
             => IF has("angles") THEN is(euler, "angles")
                ELSE IF has("mangle") THEN is(euler, "mangle")
                ELSE IF has("angle") \/ entity.pointEntity THEN is("AngleUpDown", "angle")
                ELSE info.type = "None"
       /\ info.propertyKey = "" <=> info.type = "None"
       /\ queryCall.op = "getPropertyKey" => queryCall.result = <<info.propertyKey>>
\* getPropertyKey has returned angle for a point entity that is no light and
\* has none of angles, mangle and angle.
C24_Witness_PointEntityFallsBack ==
    /\ queryCall.op = "getPropertyKey"
    /\ queryCall.result = <<"angle">>
    /\ entity.pointEntity
    /\ "classname" \in DOMAIN entity.properties
    /\ entity.properties["classname"] = "monster"
    /\ DOMAIN entity.properties \cap {"angles", "mangle", "angle"} = {}

\* C25: applyRotation leaves the entity as it is when the rotation is blocked
\* (a point entity with a classname that is no light and whose definition
\* bounds are not centered in x and y) or when the type is None; otherwise it
\* adds or updates the property getPropertyKey names and changes nothing
\* else.
C25_ApplyRotationWritesOneProperty ==
    [][queryCall'.op = "applyRotation"
          => LET key == EntityRotationPolicy_getPropertyKey(entity)
                 classname == Entity_classname(entity)
                 blocked == /\ classname # "undefined"
                            /\ SubSeq(classname, 1, 5) # "light"
                            /\ entity.pointEntity
                            /\ entity.definitionCenter # <<0, 0>>
             IN IF blocked \/ rotationInfo(entity).type = "None" THEN entity' = entity
                ELSE /\ DOMAIN entity'.properties = DOMAIN entity.properties \cup {key}
                     /\ \A k \in DOMAIN entity.properties :
                           k # key => entity'.properties[k] = entity.properties[k]
                     /\ [entity' EXCEPT !.properties = entity.properties] = entity]_vars
\* The quarter turn was applied to a light with mangle, angle and target: its
\* mangle is that of the turn, the policy added no property and left angle
\* and target as they were.
C25_Witness_MangleTurned ==
    /\ queryCall.op = "applyRotation"
    /\ queryCall.args # <<<<<<1, 0, 0>>, <<0, 1, 0>>, <<0, 0, 1>>>>>>
    /\ DOMAIN entity.properties = {"classname", "mangle", "angle", "target"}
    /\ entity.properties["classname"] = "light"
    /\ entity.properties["mangle"] = "90 0 0"
    /\ entity.properties["angle"] = "90"
    /\ entity.properties["target"] = "t1"

\* Two matrices are equal as matrices of doubles: entry by entry, where +0
\* equals -0.
SameMatrix(a, b) ==
    \A i, j \in 1..4 : a[i][j] = b[i][j] \/ (IsZero(a[i][j]) /\ IsZero(b[i][j]))
\* C26: for an entity of type AngleUpDown, applyRotation with the identity
\* leaves getRotation as it was, also for an entity that points up (angle
\* -1) or down (angle -2).
C26_IdentityKeepsRotation ==
    [][(/\ queryCall'.op = "applyRotation"
        /\ queryCall'.args = <<<<<<1, 0, 0>>, <<0, 1, 0>>, <<0, 0, 1>>>>>>
        /\ rotationInfo(entity).type = "AngleUpDown")
          => SameMatrix(EntityRotationPolicy_getRotation(entity'),
                        EntityRotationPolicy_getRotation(entity))]_vars

(***************************************************************************)
(* Properties of the queries of a brush node                               *)
(***************************************************************************)
\* C27: entity() returns null for a node without parent; otherwise it
\* returns the first ancestor, from the parent upwards, that is an entity
\* node or the world node, passing over layer, group and brush nodes, and
\* null when there is no such ancestor.
C27_EntityIsFirstOwner ==
    queryCall.op = "entity" =>
        LET chain == queryCall.args[1]
            owners == {i \in DOMAIN chain : chain[i] \in {"entity", "world"}}
        IN  queryCall.result[1] = IF owners = {} THEN 0 ELSE MinOf(owners)
C27_Witness_EntityBelowWorld ==
    /\ queryCall.op = "entity"
    /\ queryCall.args[1] = <<"group", "entity", "world">>
    /\ queryCall.result = <<2>>

\* C28: picking adds at most one hit: none when the ray misses the logical
\* bounds or no face reports an intersection, otherwise exactly one, for
\* the first face in face order whose distance is defined, carrying that
\* distance, which is not NaN.
C28_PickAddsFirstFaceHit ==
    queryCall.op = "doPick" =>
        LET bboxDistance == queryCall.args[1]
            distances == queryCall.args[2]
            hits == queryCall.result[1].hits
            defined == {i \in DOMAIN distances : distances[i] # nan}
        IN  /\ Len(hits) <= 1
            /\ queryCall.result[1].ensured
            /\ IF bboxDistance = nan \/ defined = {}
               THEN hits = <<>>
               ELSE /\ Len(hits) = 1
                    /\ hits[1].face = MinOf(defined)
                    /\ hits[1].distance = distances[MinOf(defined)]
                    /\ hits[1].distance # nan
C28_Witness_SecondOfThreeFaces ==
    /\ queryCall.op = "doPick"
    /\ queryCall.args = <<<<1>>, <<nan, <<2>>, <<1>>>>>>
    /\ queryCall.result[1].hits = <<[distance |-> <<2>>, face |-> 2]>>

\* C30: allFacesHaveAnyTagInMask(mask) is true exactly when some tag bit of
\* the mask is set on every face, not when each face merely carries some
\* tag of the mask; so a true result on a brush with a face implies that
\* anyFacesHaveAnyTagInMask(mask) is true.
C30_AllFacesShareATagOfTheMask ==
    queryCall.op = "allFacesHaveAnyTagInMask" =>
        LET faceTags == queryCall.args[1]
            tagMask == queryCall.args[2]
            set(mask, bit) == (mask \div 2 ^ bit) % 2 = 1
        IN  /\ queryCall.result[1] =
                   \E bit \in 0..(TagBits - 1) :
                       /\ set(tagMask, bit)
                       /\ \A face \in DOMAIN faceTags : set(faceTags[face], bit)
            /\ queryCall.result[1] /\ faceTags # <<>>
                   => BrushNode_anyFacesHaveAnyTagInMask(faceTags, tagMask)
C30_Witness_EachFaceAnotherTag ==
    /\ queryCall.op = "allFacesHaveAnyTagInMask"
    /\ queryCall.args = <<<<1, 2>>, 3>>
    /\ queryCall.result = <<FALSE>>
    /\ BrushNode_anyFacesHaveAnyTagInMask(<<1, 2>>, 3)

====
